---- MODULE Spec2Model ----
(***************************************************************************)
(* Model of mcskinprep (src/src/mcskinprep/tools.py): the region tables,   *)
(* the skin type resolver MCSkinType, the in-memory transformations of     *)
(* MCSkinTools and the file-level wrappers of MCSkinFileProcessor.         *)
(*                                                                         *)
(* An image is a record [tag, w, h, px] where px maps <<x, y>> to an RGBA  *)
(* pixel <<r, g, b, a>>.  Python's None and a raised exception are the     *)
(* records NoneValue and Raised(e); a loop whose paste raises stops and     *)
(* hands the exception to its caller.                                      *)
(***************************************************************************)
EXTENDS Integers, Sequences, FiniteSets, TLC

\* ------------------------------------------------------------------ bounds
\* the input images of Spec are Input(1) .. Input(NumInputs)
NumInputs == 6

\* the input images of DetectSpec are Probe(1) .. Probe(NumProbes)
NumProbes == 112

\* ------------------------------------------------------------- region table
LayerOrder == <<"layer1", "layer2">>

RegionOrder == <<"head", "body", "right_arm", "left_arm", "right_leg", "left_leg">>

\* a part name such as right_arm1_layer1, kept as its tokens
PartName(side, kind, k, layer) ==
    IF side = "" THEN <<kind, k, layer>> ELSE <<side, kind, k, layer>>

Part(name, coords) == [name |-> name, coords |-> coords]

DEFAULT_MC_SKIN_REGIONS ==
    [layer \in {"layer1", "layer2"} |->
       IF layer = "layer1" THEN
         [region \in {"head", "body", "right_arm", "left_arm", "right_leg", "left_leg"} |->
            CASE region = "head" ->
                   << Part(PartName("", "head", "1", "layer1"), <<8, 0, 24, 8>>),
                      Part(PartName("", "head", "2", "layer1"), <<0, 8, 32, 16>>) >>
              [] region = "body" ->
                   << Part(PartName("", "body", "1", "layer1"), <<20, 16, 36, 20>>),
                      Part(PartName("", "body", "2", "layer1"), <<16, 20, 40, 32>>) >>
              [] region = "right_arm" ->
                   << Part(PartName("right", "arm", "1", "layer1"), <<44, 16, 52, 20>>),
                      Part(PartName("right", "arm", "2", "layer1"), <<40, 20, 56, 32>>) >>
              [] region = "left_arm" ->
                   << Part(PartName("left", "arm", "1", "layer1"), <<36, 48, 44, 52>>),
                      Part(PartName("left", "arm", "2", "layer1"), <<32, 52, 48, 64>>) >>
              [] region = "right_leg" ->
                   << Part(PartName("right", "leg", "1", "layer1"), <<4, 16, 12, 20>>),
                      Part(PartName("right", "leg", "2", "layer1"), <<0, 20, 16, 32>>) >>
              [] region = "left_leg" ->
                   << Part(PartName("left", "leg", "1", "layer1"), <<20, 48, 28, 52>>),
                      Part(PartName("left", "leg", "2", "layer1"), <<16, 52, 32, 64>>) >> ]
       ELSE
         [region \in {"head", "body", "right_arm", "left_arm", "right_leg", "left_leg"} |->
            CASE region = "head" ->
                   << Part(PartName("", "head", "1", "layer2"), <<40, 0, 56, 8>>),
                      Part(PartName("", "head", "2", "layer2"), <<32, 8, 64, 16>>) >>
              [] region = "body" ->
                   << Part(PartName("", "body", "1", "layer2"), <<20, 32, 36, 36>>),
                      Part(PartName("", "body", "2", "layer2"), <<16, 36, 40, 48>>) >>
              [] region = "right_arm" ->
                   << Part(PartName("right", "arm", "1", "layer2"), <<44, 32, 52, 36>>),
                      Part(PartName("right", "arm", "2", "layer2"), <<40, 36, 56, 48>>) >>
              [] region = "left_arm" ->
                   << Part(PartName("left", "arm", "1", "layer2"), <<52, 48, 60, 52>>),
                      Part(PartName("left", "arm", "2", "layer2"), <<48, 52, 64, 64>>) >>
              [] region = "right_leg" ->
                   << Part(PartName("right", "leg", "1", "layer2"), <<4, 32, 12, 36>>),
                      Part(PartName("right", "leg", "2", "layer2"), <<0, 36, 16, 48>>) >>
              [] region = "left_leg" ->
                   << Part(PartName("left", "leg", "1", "layer2"), <<4, 48, 12, 52>>),
                      Part(PartName("left", "leg", "2", "layer2"), <<0, 52, 16, 64>>) >> ] ]

\* str.replace on a part name: every token equal to old becomes new
Replace(name, old, new) ==
    [i \in DOMAIN name |-> IF name[i] = old THEN new ELSE name[i]]

\* MCSkinType.adjust_regions
adjust_regions == <<"right_arm", "left_arm">>

InSeq(x, s) == \E i \in DOMAIN s : s[i] = x

\* coords[0] += 2: the arm narrowed from the left
slim_regions_left(regular_regions) ==
    [layer_key \in DOMAIN regular_regions |->
       [region_key \in DOMAIN regular_regions[layer_key] |->
          LET region_value == regular_regions[layer_key][region_key]
          IN  IF InSeq(region_key, adjust_regions)
              THEN [k \in DOMAIN region_value |->
                      Part(region_value[k].name,
                           [region_value[k].coords EXCEPT ![1] = @ + 2])]
              ELSE region_value ] ]

\* coords[2] += 2: the arms grow instead of shrinking
slim_regions_wider(regular_regions) ==
    [layer_key \in DOMAIN regular_regions |->
       [region_key \in DOMAIN regular_regions[layer_key] |->
          LET region_value == regular_regions[layer_key][region_key]
          IN  IF InSeq(region_key, adjust_regions)
              THEN [k \in DOMAIN region_value |->
                      Part(region_value[k].name,
                           [region_value[k].coords EXCEPT ![3] = @ + 2])]
              ELSE region_value ] ]

\* coords[2] -= 2 on the parts of every body part
slim_regions_every(regular_regions) ==
    [layer_key \in DOMAIN regular_regions |->
       [region_key \in DOMAIN regular_regions[layer_key] |->
          LET region_value == regular_regions[layer_key][region_key]
          IN  [k \in DOMAIN region_value |->
                 Part(region_value[k].name,
                      [region_value[k].coords EXCEPT ![3] = @ - 2])] ] ]

\* MCSkinType.slim_regions: arm parts with coords[2] -= 2, the rest shared
slim_regions(regular_regions) ==
    [layer_key \in DOMAIN regular_regions |->
       [region_key \in DOMAIN regular_regions[layer_key] |->
          LET region_value == regular_regions[layer_key][region_key]
          IN  IF InSeq(region_key, adjust_regions)
              THEN [k \in DOMAIN region_value |->
                      Part(region_value[k].name,
                           [region_value[k].coords EXCEPT ![3] = @ - 2])]
              ELSE region_value ] ]

\* ------------------------------------------------------------------- images
Transparent == <<0, 0, 0, 0>>

NoneValue == [tag |-> "None"]

Raised(e) == [tag |-> "raise", exc |-> e]

IsImage(v) == v.tag = "image"

\* pixels are kept row by row: px[y + 1][x + 1] is the pixel at (x, y)
GetPixel(img, x, y) == img.px[y + 1][x + 1]

\* Image.new('RGBA', (w, h), colour)
ImageNew(w, h, colour) ==
    [tag |-> "image", w |-> w, h |-> h,
     px |-> [r \in 1 .. h |-> [c \in 1 .. w |-> colour]]]

\* Image.crop(box): pixels outside the source read as transparent
Crop(img, c) ==
    [tag |-> "image", w |-> c[3] - c[1], h |-> c[4] - c[2],
     px |-> [r \in 1 .. c[4] - c[2] |-> [k \in 1 .. c[3] - c[1] |->
               LET x == c[1] + k - 1
                   y == c[2] + r - 1
               IN  IF x >= 0 /\ x < img.w /\ y >= 0 /\ y < img.h
                   THEN GetPixel(img, x, y) ELSE Transparent]]]

Clamp(v, lo, hi) == IF v < lo THEN lo ELSE IF v > hi THEN hi ELSE v

\* Image.paste(block, box): a 4-box must have the size of the block; the
\* block overwrites the canvas inside the box (no alpha blending without a
\* mask), clipped to the canvas; rows and columns outside the box are kept
Paste(canvas, blk, c) ==
    IF blk.w # c[3] - c[1] \/ blk.h # c[4] - c[2]
         THEN Raised("ValueError")
    ELSE LET left == Clamp(c[1], 0, canvas.w)
             right == Clamp(c[3], left, canvas.w)
             top == Clamp(c[2], 0, canvas.h)
             bottom == Clamp(c[4], top, canvas.h)
         IN  [canvas EXCEPT !.px =
                SubSeq(canvas.px, 1, top)
                \o [r \in 1 .. bottom - top |->
                      SubSeq(canvas.px[top + r], 1, left)
                      \o [k \in 1 .. right - left |->
                            GetPixel(blk, left + k - 1 - c[1], top + r - 1 - c[2])]
                      \o SubSeq(canvas.px[top + r], right + 1, canvas.w)]
                \o SubSeq(canvas.px, bottom + 1, canvas.h)]

\* ------------------------------------------------------------ numpy arrays
\* np.array(image): shape (rows, cols, 4), a[row + 1][col + 1] is one pixel
NpArray(img) ==
    [rows |-> img.h, cols |-> img.w,
     a |-> [r \in 1 .. img.h |-> [c \in 1 .. img.w |-> GetPixel(img, c - 1, r - 1)]]]

\* Image.fromarray(array, mode='RGBA')
FromArray(arr) ==
    [tag |-> "image", w |-> arr.cols, h |-> arr.rows,
     px |-> [y \in 1 .. arr.rows |-> [x \in 1 .. arr.cols |-> arr.a[y][x]]]]

\* np.delete(arr, cols, axis=1): the columns not listed, in their order
NpDeleteCols(arr, cols) ==
    LET Kept(c) == ~InSeq(c, cols)
        keep == SelectSeq([i \in 1 .. arr.cols |-> i - 1], Kept)
    IN  [rows |-> arr.rows, cols |-> Len(keep),
         a |-> [r \in 1 .. arr.rows |-> [c \in 1 .. Len(keep) |->
                  arr.a[r][keep[c] + 1]]]]

\* np.insert(arr, pos, arr[:, pos, :], axis=1): a copy of column pos is
\* inserted before column pos
NpInsertCopy(arr, pos) ==
    [rows |-> arr.rows, cols |-> arr.cols + 1,
     a |-> [r \in 1 .. arr.rows |-> [c \in 1 .. arr.cols + 1 |->
              IF c - 1 < pos THEN arr.a[r][c]
              ELSE IF c - 1 = pos THEN arr.a[r][pos + 1]
              ELSE arr.a[r][c - 1]]]]

\* ------------------------------------------------------------- MCSkinType
ValidTypes == {"regular", "steve", "slim", "alex"}

\* np.any(alpha[:, -1:] > 0): the last column alone
OuterColumnsVisible_last(arm_img) ==
    LET alpha == NpArray(arm_img)
    IN  \E r \in 1 .. alpha.rows : alpha.a[r][alpha.cols][4] > 0

\* np.any(alpha[:, -2:] > 0) on the crop of one arm part
OuterColumnsVisible(arm_img) ==
    LET alpha == NpArray(arm_img)
        first == IF alpha.cols >= 2 THEN alpha.cols - 2 ELSE 0
    IN  \E r \in 1 .. alpha.rows : \E c \in first + 1 .. alpha.cols :
          alpha.a[r][c][4] > 0

\* MCSkinType.auto_detect_skin_type: the value returned (and remembered)
auto_detect_skin_type(regular_regions, skin_img) ==
    IF \E a \in DOMAIN adjust_regions : \E l \in DOMAIN LayerOrder :
         \E k \in DOMAIN regular_regions[LayerOrder[l]][adjust_regions[a]] :
           OuterColumnsVisible(
             Crop(skin_img, regular_regions[LayerOrder[l]][adjust_regions[a]][k].coords))
    THEN "regular" ELSE "slim"

\* ------------------------------------------------------------ MCSkinTools
\* the (layer, region, ordinal) triples of a table in iteration order
RECURSIVE PartsOf(_, _, _, _)
PartsOf(regions, layers, names, i) ==
    IF i > Len(layers) * Len(names) THEN << >>
    ELSE LET layer == layers[((i - 1) \div Len(names)) + 1]
             region == names[((i - 1) % Len(names)) + 1]
         IN  [k \in DOMAIN regions[layer][region] |->
                [layer |-> layer, region |-> region, k |-> k]]
             \o PartsOf(regions, layers, names, i + 1)

\* next((p for p in parts if p['name'] == name), None)
FindPart(parts, name) ==
    IF \E j \in DOMAIN parts : parts[j].name = name
    THEN parts[CHOOSE j \in DOMAIN parts :
                 /\ parts[j].name = name
                 /\ \A j2 \in DOMAIN parts : parts[j2].name = name => j <= j2]
    ELSE NoneValue

\* layer_mapping sending each layer to itself
OtherLayer_same(layer) == layer

OtherLayer(layer) == IF layer = "layer1" THEN "layer2" ELSE "layer1"

RECURSIVE SwapLoop(_, _, _, _, _)
SwapLoop(new_skin, img, skin_regions, items, i) ==
    IF i > Len(items) THEN new_skin
    ELSE LET layer == items[i].layer
             target_layer == OtherLayer(layer)
             part_info == skin_regions[layer][items[i].region][items[i].k]
             cropped_part == Crop(img, part_info.coords)
             target_part_info ==
                 FindPart(skin_regions[target_layer][items[i].region],
                          Replace(part_info.name, layer, target_layer))
             pasted == IF target_part_info = NoneValue THEN new_skin
                       ELSE Paste(new_skin, cropped_part, target_part_info.coords)
         IN  IF IsImage(pasted)
             THEN SwapLoop(pasted, img, skin_regions, items, i + 1)
             ELSE pasted

\* MCSkinTools.swap_skin_layer2_to_layer1
swap_skin_layer2_to_layer1(skin_regions, img) ==
    SwapLoop(ImageNew(64, 64, Transparent), img, skin_regions,
             PartsOf(skin_regions, LayerOrder, RegionOrder, 1), 1)

\* a single swap where two are meant
twice_swap_skin_layer_once(skin_regions, img) ==
    swap_skin_layer2_to_layer1(skin_regions, img)

\* MCSkinTools.twice_swap_skin_layer
twice_swap_skin_layer(skin_regions, img) ==
    LET new_skin == swap_skin_layer2_to_layer1(skin_regions, img)
    IN  IF IsImage(new_skin) THEN swap_skin_layer2_to_layer1(skin_regions, new_skin)
        ELSE new_skin

RECURSIVE CopyLoop(_, _, _, _, _)
CopyLoop(new_skin, img, skin_regions, items, i) ==
    IF i > Len(items) THEN new_skin
    ELSE LET coords == skin_regions[items[i].layer][items[i].region][items[i].k].coords
             pasted == Paste(new_skin, Crop(img, coords), coords)
         IN  IF IsImage(pasted)
             THEN CopyLoop(pasted, img, skin_regions, items, i + 1)
             ELSE pasted

\* the layer to remove is the one kept
remove_layer_kept(skin_regions, img, layer_index) ==
    IF layer_index \notin {1, 2} THEN NoneValue
    ELSE LET keep_layer == IF layer_index = 1 THEN "layer1" ELSE "layer2"
         IN  CopyLoop(ImageNew(64, 64, Transparent), img, skin_regions,
                      PartsOf(skin_regions, <<keep_layer>>, RegionOrder, 1), 1)

\* the kept layer pasted on a copy of the input instead of a new canvas
remove_layer_on_copy(skin_regions, img, layer_index) ==
    IF layer_index \notin {1, 2} THEN NoneValue
    ELSE LET keep_layer == IF layer_index = 1 THEN "layer2" ELSE "layer1"
         IN  CopyLoop(img, img, skin_regions,
                      PartsOf(skin_regions, <<keep_layer>>, RegionOrder, 1), 1)

\* any index other than 1 treated as 2
remove_layer_else_2(skin_regions, img, layer_index) ==
    LET keep_layer == IF layer_index = 1 THEN "layer2" ELSE "layer1"
    IN  CopyLoop(ImageNew(64, 64, Transparent), img, skin_regions,
                 PartsOf(skin_regions, <<keep_layer>>, RegionOrder, 1), 1)

\* MCSkinTools.remove_layer
remove_layer(skin_regions, img, layer_index) ==
    IF layer_index \notin {1, 2} THEN NoneValue
    ELSE LET keep_layer == IF layer_index = 1 THEN "layer2" ELSE "layer1"
         IN  CopyLoop(ImageNew(64, 64, Transparent), img, skin_regions,
                      PartsOf(skin_regions, <<keep_layer>>, RegionOrder, 1), 1)

Min(a, b) == IF a < b THEN a ELSE b

\* exist_region_layer1 / exist_region_layer2 of convert_skin_64x32_to_64x64
exist_region_layer1 == <<"head", "body", "right_arm", "right_leg">>

\* the overlay of the head left out
exist_region_layer2_none == << >>

exist_region_layer2 == <<"head">>

\* mirror_regions.items(): (target_region, source_region) in dict order
mirror_regions == << <<"left_arm", "right_arm">>, <<"left_leg", "right_leg">> >>

\* the dict comprehension over zip(source_parts, target_parts): keyed by the
\* source name with "right" replaced, a later pair overrides an earlier one
coord_mapping(source_parts, target_parts) ==
    LET n == Min(Len(source_parts), Len(target_parts))
        Key(j) == Replace(source_parts[j].name, "right", "left")
    IN  [name \in {Key(j) : j \in 1 .. n} |->
           target_parts[CHOOSE j \in 1 .. n :
                          /\ Key(j) = name
                          /\ \A j2 \in 1 .. n : Key(j2) = name => j2 <= j].coords]

\* Image.transpose(FLIP_LEFT_RIGHT)
FlipLeftRight(blk) ==
    [blk EXCEPT !.px = [r \in 1 .. blk.h |-> [k \in 1 .. blk.w |-> blk.px[r][blk.w + 1 - k]]]]

\* the left limbs as mirror images of the right limbs
RECURSIVE MirrorParts_flipped(_, _, _, _, _)
MirrorParts_flipped(new_skin, img, source_parts, mapping, j) ==
    IF j > Len(source_parts) THEN new_skin
    ELSE LET target_part_name == Replace(source_parts[j].name, "right", "left")
             pasted == IF target_part_name \in DOMAIN mapping
                       THEN Paste(new_skin,
                                  FlipLeftRight(Crop(img, source_parts[j].coords)),
                                  mapping[target_part_name])
                       ELSE new_skin
         IN  IF IsImage(pasted)
             THEN MirrorParts_flipped(pasted, img, source_parts, mapping, j + 1)
             ELSE pasted

\* the inner loop over source_parts for one (target_region, source_region)
RECURSIVE MirrorParts(_, _, _, _, _)
MirrorParts(new_skin, img, source_parts, mapping, j) ==
    IF j > Len(source_parts) THEN new_skin
    ELSE LET target_part_name == Replace(source_parts[j].name, "right", "left")
             pasted == IF target_part_name \in DOMAIN mapping
                       THEN Paste(new_skin, Crop(img, source_parts[j].coords),
                                  mapping[target_part_name])
                       ELSE new_skin
         IN  IF IsImage(pasted)
             THEN MirrorParts(pasted, img, source_parts, mapping, j + 1)
             ELSE pasted

RECURSIVE MirrorLoop(_, _, _, _)
MirrorLoop(new_skin, img, skin_regions, m) ==
    IF m > Len(mirror_regions) THEN new_skin
    ELSE LET source_parts == skin_regions["layer1"][mirror_regions[m][2]]
             target_parts == skin_regions["layer1"][mirror_regions[m][1]]
             done == MirrorParts(new_skin, img, source_parts,
                                 coord_mapping(source_parts, target_parts), 1)
         IN  IF IsImage(done) THEN MirrorLoop(done, img, skin_regions, m + 1)
             ELSE done

\* the whole input laid on the canvas before the regions are copied
convert_skin_64x32_to_64x64_over_input(skin_regions, img) ==
    LET start == Paste(ImageNew(64, 64, Transparent), img, <<0, 0, img.w, img.h>>)
        layer1_done ==
            CopyLoop(start, img, skin_regions,
                     PartsOf(skin_regions, <<"layer1">>, exist_region_layer1, 1), 1)
        layer2_done ==
            CopyLoop(layer1_done, img, skin_regions,
                     PartsOf(skin_regions, <<"layer2">>, exist_region_layer2, 1), 1)
    IN  MirrorLoop(layer2_done, img, skin_regions, 1)

\* MCSkinTools.convert_skin_64x32_to_64x64
convert_skin_64x32_to_64x64(skin_regions, img) ==
    LET layer1_done ==
            CopyLoop(ImageNew(64, 64, Transparent), img, skin_regions,
                     PartsOf(skin_regions, <<"layer1">>, exist_region_layer1, 1), 1)
        layer2_done ==
            IF IsImage(layer1_done)
            THEN CopyLoop(layer1_done, img, skin_regions,
                          PartsOf(skin_regions, <<"layer2">>, exist_region_layer2, 1), 1)
            ELSE layer1_done
    IN  IF IsImage(layer2_done) THEN MirrorLoop(layer2_done, img, skin_regions, 1)
        ELSE layer2_done

\* the two outermost columns deleted instead
delete_columns_outer(arm_side) ==
    << <<6, 7>>, <<14, 15>> >>

\* the first two columns of every arm block deleted
delete_columns_first(arm_side) ==
    << <<0, 1>>, <<0, 1>> >>

\* delete_columns with i = 1: the two arms' column lists change places
delete_columns_mirrored(arm_side) ==
    LET i == 1
    IN  IF arm_side = "right_arm"
        THEN << <<i, 4 + i>>, <<4 + i, 3 * 4 + (3 - i)>> >>
        ELSE << <<3 - i, 4 + (3 - i)>>, <<4 + (3 - i), 3 * 4 + i>> >>

\* delete_columns of steve_to_alex, with i = 2
delete_columns(arm_side) ==
    LET i == 2
    IN  IF arm_side = "right_arm"
        THEN << <<i, 4 + i>>, <<4 + i, 3 * 4 + (3 - i)>> >>
        ELSE << <<3 - i, 4 + (3 - i)>>, <<4 + (3 - i), 3 * 4 + i>> >>

\* the lower position first: the second insertion is shifted by the first
insert_columns_ascending(arm_side) ==
    << <<1, 4>>, <<5, 12>> >>

\* insert_columns of alex_to_steve, with i = 1
insert_columns(arm_side) ==
    LET i == 1
    IN  IF arm_side = "right_arm"
        THEN << <<3 + i, i>>, <<11 + (2 - i), 4 + i>> >>
        ELSE << <<3 + (2 - i), 2 - i>>, <<11 + i, 4 + (2 - i)>> >>

\* for pos in insert_col: insert a copy of column pos at pos
RECURSIVE InsertAll(_, _, _)
InsertAll(arr, insert_col, n) ==
    IF n > Len(insert_col) THEN arr
    ELSE InsertAll(NpInsertCopy(arr, insert_col[n]), insert_col, n + 1)

\* the (layer, arm_side, idx) triples of the conversion loops, idx over
\* zip(arm_parts, col_indices)
ArmItems(arm_regions, col_indices) ==
    LET one(layer, arm_side) ==
            [idx \in 1 .. Min(Len(arm_regions[layer][arm_side]),
                              Len(col_indices[arm_side])) |->
               [layer |-> layer, region |-> arm_side, k |-> idx]]
    IN  one("layer1", "right_arm") \o one("layer1", "left_arm")
        \o one("layer2", "right_arm") \o one("layer2", "left_arm")

RECURSIVE DeleteLoop(_, _, _, _, _, _)
DeleteLoop(new_skin, img, regular_regions, slim, items, n) ==
    IF n > Len(items) THEN new_skin
    ELSE LET it == items[n]
             part == regular_regions[it.layer][it.region][it.k]
             new_part_array ==
                 NpDeleteCols(NpArray(Crop(img, part.coords)),
                              delete_columns(it.region)[it.k])
             target_coords == slim[it.layer][it.region][it.k].coords
             pasted == Paste(new_skin, FromArray(new_part_array), target_coords)
         IN  IF IsImage(pasted)
             THEN DeleteLoop(pasted, img, regular_regions, slim, items, n + 1)
             ELSE pasted

RECURSIVE InsertLoop(_, _, _, _, _, _)
InsertLoop(new_skin, img, regular_regions, slim, items, n) ==
    IF n > Len(items) THEN new_skin
    ELSE LET it == items[n]
             part == slim[it.layer][it.region][it.k]
             new_part_array ==
                 InsertAll(NpArray(Crop(img, part.coords)),
                           insert_columns(it.region)[it.k], 1)
             target_coords == regular_regions[it.layer][it.region][it.k].coords
             pasted == Paste(new_skin, FromArray(new_part_array), target_coords)
         IN  IF IsImage(pasted)
             THEN InsertLoop(pasted, img, regular_regions, slim, items, n + 1)
             ELSE pasted

\* steve_to_alex without its early return: a slim image is narrowed again
steve_to_alex_always(regular_regions, slim, img) ==
    LET detected == auto_detect_skin_type(regular_regions, img)
    IN  [skin_type |-> detected,
         same |-> FALSE,
         canvases |-> 1,
         ret |-> DeleteLoop(ImageNew(64, 64, Transparent), img, regular_regions,
                            slim, ArmItems(regular_regions,
                                     [a \in {"right_arm", "left_arm"} |->
                                        delete_columns(a)]), 1)]

\* steve_to_alex pasting the narrowed arms onto a copy of the input instead
\* of an empty canvas
steve_to_alex_onto_input(regular_regions, slim, img) ==
    LET detected == auto_detect_skin_type(regular_regions, img)
    IN  [skin_type |-> detected,
         same |-> detected \in {"alex", "slim"},
         canvases |-> IF detected \in {"steve", "regular"} THEN 1 ELSE 0,
         ret |-> IF detected \notin ValidTypes THEN Raised("ValueError")
                 ELSE IF detected \in {"alex", "slim"} THEN img
                 ELSE DeleteLoop(img, img, regular_regions,
                                 slim, ArmItems(regular_regions,
                                          [a \in {"right_arm", "left_arm"} |->
                                             delete_columns(a)]), 1)]

\* MCSkinTools.steve_to_alex: the value returned, the type remembered, whether
\* the value returned is img itself and how many canvases were allocated
steve_to_alex(regular_regions, slim, img) ==
    LET detected == auto_detect_skin_type(regular_regions, img)
    IN  [skin_type |-> detected,
         same |-> detected \in {"alex", "slim"},
         canvases |-> IF detected \in {"steve", "regular"} THEN 1 ELSE 0,
         ret |-> IF detected \notin ValidTypes THEN Raised("ValueError")
                 ELSE IF detected \in {"alex", "slim"} THEN img
                 ELSE DeleteLoop(ImageNew(64, 64, Transparent), img, regular_regions,
                                 slim, ArmItems(regular_regions,
                                          [a \in {"right_arm", "left_arm"} |->
                                             delete_columns(a)]), 1)]

\* alex_to_steve without its early return: a regular image is widened again
alex_to_steve_always(regular_regions, slim, img) ==
    LET detected == auto_detect_skin_type(regular_regions, img)
    IN  [skin_type |-> detected,
         same |-> FALSE,
         canvases |-> 1,
         ret |-> InsertLoop(ImageNew(64, 64, Transparent), img, regular_regions,
                            slim,
                            ArmItems(slim, [a \in {"right_arm", "left_arm"} |->
                                             insert_columns(a)]), 1)]

\* MCSkinTools.alex_to_steve: the value returned, the type remembered, whether
\* the value returned is img itself and how many canvases were allocated
alex_to_steve(regular_regions, slim, img) ==
    LET detected == auto_detect_skin_type(regular_regions, img)
    IN  [skin_type |-> detected,
         same |-> detected \in {"steve", "regular"},
         canvases |-> IF detected \in {"alex", "slim"} THEN 1 ELSE 0,
         ret |-> IF detected \notin ValidTypes THEN Raised("ValueError")
                 ELSE IF detected \in {"steve", "regular"} THEN img
                 ELSE InsertLoop(ImageNew(64, 64, Transparent), img, regular_regions,
                                 slim,
                                 ArmItems(slim, [a \in {"right_arm", "left_arm"} |->
                                                  insert_columns(a)]), 1)]

\* convert_skin_type taking an unknown target token for 'alex'
convert_skin_type_lenient(self_skin_type, regular_regions, slim, img, target_type) ==
    LET detected_first ==
            IF target_type = "None" /\ self_skin_type = "None"
            THEN auto_detect_skin_type(regular_regions, img)
            ELSE self_skin_type
        target ==
            IF target_type = "None"
            THEN IF detected_first \in {"steve", "regular"} THEN "alex"
                 ELSE IF detected_first \in {"alex", "slim"} THEN "steve"
                 ELSE "None"
            ELSE IF target_type \notin {"steve", "alex", "regular", "slim"} THEN "alex"
            ELSE target_type
    IN  IF target = "None"
        THEN [skin_type |-> detected_first, ret |-> NoneValue, detected |-> FALSE,
              same |-> FALSE, canvases |-> 0]
        ELSE IF target \in {"steve", "regular"}
        THEN LET r == alex_to_steve(regular_regions, slim, img)
             IN  [skin_type |-> r.skin_type, ret |-> r.ret, detected |-> TRUE,
                  same |-> r.same, canvases |-> r.canvases]
        ELSE LET r == steve_to_alex(regular_regions, slim, img)
             IN  [skin_type |-> r.skin_type, ret |-> r.ret, detected |-> TRUE,
                  same |-> r.same, canvases |-> r.canvases]

\* MCSkinTools.convert_skin_type: the value returned and the type remembered;
\* "None" is Python's None
convert_skin_type(self_skin_type, regular_regions, slim, img, target_type) ==
    LET detected_first ==
            IF target_type = "None" /\ self_skin_type = "None"
            THEN auto_detect_skin_type(regular_regions, img)
            ELSE self_skin_type
        target ==
            IF target_type = "None"
            THEN IF detected_first \in {"steve", "regular"} THEN "alex"
                 ELSE IF detected_first \in {"alex", "slim"} THEN "steve"
                 ELSE "None"
            ELSE IF target_type \notin {"steve", "alex", "regular", "slim"} THEN "None"
            ELSE target_type
    IN  IF target = "None"
        THEN [skin_type |-> detected_first, ret |-> NoneValue, detected |-> FALSE,
              same |-> FALSE, canvases |-> 0]
        ELSE IF target \in {"steve", "regular"}
        THEN LET r == alex_to_steve(regular_regions, slim, img)
             IN  [skin_type |-> r.skin_type, ret |-> r.ret, detected |-> TRUE,
                  same |-> r.same, canvases |-> r.canvases]
        ELSE LET r == steve_to_alex(regular_regions, slim, img)
             IN  [skin_type |-> r.skin_type, ret |-> r.ret, detected |-> TRUE,
                  same |-> r.same, canvases |-> r.canvases]

\* MCSkinFileProcessor._verify_skin_dimensions
verify_skin_dimensions(img, w, h) == ~(img.w # w \/ img.h # h)

\* MCSkinFileProcessor.remove_layer: the value returned and the image saved
\* to the output file (NoneValue when nothing is written)
file_remove_layer(skin_regions, img, layer_index) ==
    IF ~IsImage(img) THEN [ret |-> FALSE, saved |-> NoneValue]
    ELSE IF ~verify_skin_dimensions(img, 64, 64) THEN [ret |-> FALSE, saved |-> NoneValue]
    ELSE IF layer_index \notin {1, 2} THEN [ret |-> FALSE, saved |-> NoneValue]
    ELSE LET new_skin == remove_layer(skin_regions, img, layer_index)
         IN  IF IsImage(new_skin) THEN [ret |-> TRUE, saved |-> new_skin]
             ELSE [ret |-> FALSE, saved |-> NoneValue]

\* an unknown skin type answered with the regular table
type_skin_regions_default(t, regular_regions) ==
    IF t \in {"slim", "alex"} THEN slim_regions(regular_regions)
    ELSE regular_regions

\* coords = part["coords"] without .copy(): the subtraction lands in the
\* regular table
regular_regions_after_read_aliased(regular_regions) == slim_regions(regular_regions)

\* the regular table after a read of slim_regions: arm coords are copied
\* before 2 is subtracted and the other parts are only handed on, so the
\* read writes nothing into it
regular_regions_after_read(regular_regions) == regular_regions

\* MCSkinType.skin_regions for a given skin type ("None" reads as 'regular')
type_skin_regions(t, regular_regions) ==
    IF t \in {"None", "regular", "steve"} THEN regular_regions
    ELSE IF t \in {"slim", "alex"} THEN slim_regions(regular_regions)
    ELSE Raised("ValueError")

\* the regular table whatever the token
init_skin_regions_regular(t) == DEFAULT_MC_SKIN_REGIONS

\* MCSkinTools.__init__: the table the instance works with
init_skin_regions(t) ==
    LET r == type_skin_regions(t, DEFAULT_MC_SKIN_REGIONS)
    IN  IF r = Raised("ValueError") THEN DEFAULT_MC_SKIN_REGIONS ELSE r

\* ----------------------------------------------------- MCSkinRegionDetector
\* a list argument and an int argument; an argument left out is NoneValue
ListValue(items) == [tag |-> "list", items |-> items]

IntValue(n) == [tag |-> "int", value |-> n]

\* f'layer{layer}': the key of a layer of the table for 1 and 2, a key the
\* table does not have for any other number
LayerKey(layer) ==
    IF layer.value = 1 THEN "layer1" ELSE IF layer.value = 2 THEN "layer2" ELSE "layer?"

layers_to_check(layer) ==
    IF layer = NoneValue THEN <<"layer1", "layer2">> ELSE <<LayerKey(layer)>>

\* list(self.skin_regions['layer1'].keys()) when no list is given
regions_to_check(regions) ==
    IF regions = NoneValue THEN RegionOrder ELSE regions.items

\* no test of the rectangle against the image at all
WithinBounds_any(coords, skin_img) == TRUE

\* "Make sure coordinates are within image bounds"
WithinBounds(coords, skin_img) ==
    /\ coords[1] < skin_img.w
    /\ coords[2] < skin_img.h
    /\ coords[3] <= skin_img.w
    /\ coords[4] <= skin_img.h

\* np.any(alpha_channel > 0)
AnyAlphaPositive(region_img) ==
    \E r \in 1 .. region_img.h : \E c \in 1 .. region_img.w :
       region_img.px[r][c][4] > 0

\* np.any(alpha_channel == 0)
AnyAlphaZero(region_img) ==
    \E r \in 1 .. region_img.h : \E c \in 1 .. region_img.w :
       region_img.px[r][c][4] = 0

\* self.skin_regions[layer_name] fails with KeyError for a layer the table
\* does not have, at the first region looked at
MissingLayer(skin_regions, regions, layer) ==
    /\ \E i \in DOMAIN layers_to_check(layer) :
          layers_to_check(layer)[i] \notin DOMAIN skin_regions
    /\ regions_to_check(regions) # << >>

\* MCSkinRegionDetector.has_pixels
has_pixels(skin_regions, regions, layer, skin_img) ==
    IF MissingLayer(skin_regions, regions, layer) THEN Raised("KeyError")
    ELSE [tag |-> "bool", value |->
            \E i \in DOMAIN layers_to_check(layer) :
              \E j \in DOMAIN regions_to_check(regions) :
                LET layer_name == layers_to_check(layer)[i]
                    region_name == regions_to_check(regions)[j]
                IN  /\ region_name \in DOMAIN skin_regions[layer_name]
                    /\ \E k \in DOMAIN skin_regions[layer_name][region_name] :
                         LET coords == skin_regions[layer_name][region_name][k].coords
                         IN  /\ WithinBounds(coords, skin_img)
                             /\ AnyAlphaPositive(Crop(skin_img, coords))]

\* MCSkinRegionDetector.has_transparency
has_transparency(skin_regions, regions, layer, skin_img) ==
    IF MissingLayer(skin_regions, regions, layer) THEN Raised("KeyError")
    ELSE [tag |-> "bool", value |->
            \E i \in DOMAIN layers_to_check(layer) :
              \E j \in DOMAIN regions_to_check(regions) :
                LET layer_name == layers_to_check(layer)[i]
                    region_name == regions_to_check(regions)[j]
                IN  /\ region_name \in DOMAIN skin_regions[layer_name]
                    /\ \E k \in DOMAIN skin_regions[layer_name][region_name] :
                         LET coords == skin_regions[layer_name][region_name][k].coords
                         IN  /\ WithinBounds(coords, skin_img)
                             /\ AnyAlphaZero(Crop(skin_img, coords))]

\* ------------------------------------------------------------ input images
Red == <<255, 0, 0, 255>>

Green == <<0, 255, 0, 255>>

Yellow == <<255, 255, 0, 255>>

InBox(x, y, c) == x >= c[1] /\ x < c[3] /\ y >= c[2] /\ y < c[4]

MakeImage(w, h, F(_, _)) ==
    [tag |-> "image", w |-> w, h |-> h,
     px |-> [r \in 1 .. h |-> [c \in 1 .. w |-> F(c - 1, r - 1)]]]

\* setUp of the tests: red canvas, green head1_layer1, yellow right_arm2_layer1
\* and (64x64 only) yellow left_arm2_layer1
test_img(h) ==
    LET F(x, y) == IF InBox(x, y, <<8, 0, 24, 8>>) THEN Green
                   ELSE IF InBox(x, y, <<40, 20, 56, 32>>) THEN Yellow
                   ELSE IF h = 64 /\ InBox(x, y, <<32, 52, 48, 64>>) THEN Yellow
                   ELSE Red
    IN  MakeImage(64, h, F)

\* test_convert_skin_type: transparent canvas with a green right_arm1_layer1
regular_skin ==
    LET F(x, y) == IF InBox(x, y, <<44, 16, 52, 20>>) THEN Green ELSE Transparent
    IN  MakeImage(64, 64, F)

\* the eight arm rectangles of the wide table
WideArmBoxes ==
    {DEFAULT_MC_SKIN_REGIONS[l][a][k].coords :
       l \in {"layer1", "layer2"}, a \in {"right_arm", "left_arm"}, k \in 1 .. 2}

\* (x, y) lies in the rightmost two columns of a wide arm rectangle
InOuterColumns(x, y) ==
    \E c \in WideArmBoxes : InBox(x, y, <<c[3] - 2, c[2], c[3], c[4]>>)

\* every pixel differs from every other one
Gradient(h) ==
    LET F(x, y) == <<x, y, 7, 255>>
    IN  MakeImage(64, h, F)

\* a skin that keeps the narrow convention: the outer arm columns are empty
SlimGradient ==
    LET F(x, y) == <<x, y, 7, IF InOuterColumns(x, y) THEN 0 ELSE 255>>
    IN  MakeImage(64, 64, F)

Spot == <<200, 100, 50, 255>>

Faint == <<200, 100, 50, 1>>

WithPixel(img, x, y, colour) ==
    LET F(i, j) == IF i = x /\ j = y THEN colour ELSE GetPixel(img, i, j)
    IN  MakeImage(img.w, img.h, F)

Input(k) ==
    CASE k = 1 -> test_img(64)
      [] k = 2 -> test_img(32)
      [] k = 3 -> Gradient(64)
      [] k = 4 -> Gradient(32)
      [] k = 5 -> SlimGradient
      [] k = 6 -> regular_skin
      [] k = 7 -> ImageNew(64, 64, Transparent)
      [] OTHER -> WithPixel(ImageNew(64, 64, Transparent),
                            (k * 11) % 64, (k * 23) % 64, Spot)

ArmBoxSeq ==
    [n \in 1 .. 8 |->
       DEFAULT_MC_SKIN_REGIONS[LayerOrder[((n - 1) \div 4) + 1]]
                              [adjust_regions[(((n - 1) \div 2) % 2) + 1]]
                              [((n - 1) % 2) + 1].coords]

\* one pixel with alpha > 0 placed d columns left of the right edge of an arm
\* rectangle (d = 0 is the first column outside it, d = 6 places none), on an
\* empty canvas or on a skin that keeps the narrow convention
Probe(k) ==
    LET base == IF (k - 1) % 2 = 0 THEN ImageNew(64, 64, Transparent) ELSE SlimGradient
        c == ArmBoxSeq[(((k - 1) \div 2) % 8) + 1]
        d == ((k - 1) \div 16) % 7
        low == (((k - 1) \div 2) + d) % 2 = 1
    IN  IF d = 6 THEN base
        ELSE WithPixel(base, c[3] - d, IF low THEN c[4] - 1 ELSE c[2],
                       IF low THEN Faint ELSE Spot)

\* ------------------------------------------------------------ state machine
VARIABLES
    skin_type,      \* MCSkinTools.skin_type
    det_skin_type,  \* MCSkinTools.type_detector._skin_type
    skin_regions,   \* MCSkinTools.skin_regions, chosen by __init__
    src,            \* the image the caller started from
    img,            \* the image passed to the call
    call,           \* the call made on img, NoCall before it is made
    out,            \* what the call returned
    saved,          \* what a file-level call wrote to its output file
    chain,          \* the calls whose result was passed on to the next call
    out_is_img,     \* the call returned the very object it was given (out is img)
    canvases,       \* how many times the call ran Image.new('RGBA', (64, 64))
    folder,         \* the folders a batch run works on, NoneValue without one
    slim_pos        \* where a read of slim_regions stands, NoneValue when none runs

vars == <<skin_type, det_skin_type, skin_regions, src, img, call, out, saved, chain,
          out_is_img, canvases, folder, slim_pos>>

ToolTypes == {"None", "slim"}

TargetTypes == {"None", "regular", "slim", "steve", "alex", "bogus"}

LayerIndexes == 0 .. 3

Call(op, layer_index, target_type) ==
    [op |-> op, layer_index |-> layer_index, target_type |-> target_type]

NoCall == Call("", 0, "")

TypeValue(t) == [tag |-> "type", value |-> t]

BoolValue(b) == [tag |-> "bool", value |-> b]

\* MCSkinTools(skin_type=t) and the image the caller holds
Construct(t, image) ==
    /\ skin_type = t
    /\ det_skin_type = (IF t = "None" THEN "regular" ELSE t)
    /\ skin_regions = init_skin_regions(t)
    /\ src = image
    /\ img = image
    /\ call = NoCall
    /\ out = NoneValue
    /\ saved = NoneValue
    /\ chain = << >>
    /\ out_is_img = FALSE
    /\ canvases = 0
    /\ folder = NoneValue
    /\ slim_pos = NoneValue

Init == \E t \in ToolTypes : \E k \in 1 .. NumInputs : Construct(t, Input(k))

DetectInit == \E t \in ToolTypes : \E k \in 1 .. NumProbes : Construct(t, Probe(k))

Returns(c, value) ==
    /\ call = NoCall
    /\ call' = c
    /\ out' = value
    /\ UNCHANGED <<skin_regions, src, img, chain, folder, slim_pos>>

Expand ==
    /\ Returns(Call("expand", 0, ""), convert_skin_64x32_to_64x64(skin_regions, img))
    /\ out_is_img' = FALSE
    /\ canvases' = 1
    /\ UNCHANGED <<skin_type, det_skin_type, saved>>

Swap ==
    /\ Returns(Call("swap", 0, ""), swap_skin_layer2_to_layer1(skin_regions, img))
    /\ out_is_img' = FALSE
    /\ canvases' = 1
    /\ UNCHANGED <<skin_type, det_skin_type, saved>>

TwiceSwap ==
    /\ Returns(Call("twice_swap", 0, ""), twice_swap_skin_layer(skin_regions, img))
    /\ out_is_img' = FALSE
    /\ canvases' = 2
    /\ UNCHANGED <<skin_type, det_skin_type, saved>>

RemoveLayer(layer_index) ==
    /\ Returns(Call("remove_layer", layer_index, ""),
               remove_layer(skin_regions, img, layer_index))
    /\ out_is_img' = FALSE
    /\ canvases' = 1
    /\ UNCHANGED <<skin_type, det_skin_type, saved>>

FileRemoveLayer(layer_index) ==
    LET r == file_remove_layer(skin_regions, img, layer_index)
    IN  /\ Returns(Call("file_remove_layer", layer_index, ""), BoolValue(r.ret))
        /\ saved' = r.saved
        /\ out_is_img' = FALSE
        /\ canvases' = (IF IsImage(r.saved) THEN 1 ELSE 0)
        /\ UNCHANGED <<skin_type, det_skin_type>>

AutoDetect ==
    LET t == auto_detect_skin_type(DEFAULT_MC_SKIN_REGIONS, img)
    IN  /\ Returns(Call("auto_detect", 0, ""), TypeValue(t))
        /\ det_skin_type' = t
        /\ out_is_img' = FALSE
        /\ canvases' = 0
        /\ UNCHANGED <<skin_type, saved>>

SteveToAlex ==
    LET r == steve_to_alex(DEFAULT_MC_SKIN_REGIONS,
                           slim_regions(DEFAULT_MC_SKIN_REGIONS), img)
    IN  /\ Returns(Call("steve_to_alex", 0, ""), r.ret)
        /\ skin_type' = r.skin_type
        /\ det_skin_type' = r.skin_type
        /\ out_is_img' = r.same
        /\ canvases' = r.canvases
        /\ UNCHANGED saved

AlexToSteve ==
    LET r == alex_to_steve(DEFAULT_MC_SKIN_REGIONS,
                           slim_regions(DEFAULT_MC_SKIN_REGIONS), img)
    IN  /\ Returns(Call("alex_to_steve", 0, ""), r.ret)
        /\ skin_type' = r.skin_type
        /\ det_skin_type' = r.skin_type
        /\ out_is_img' = r.same
        /\ canvases' = r.canvases
        /\ UNCHANGED saved

ConvertSkinType(target_type) ==
    LET r == convert_skin_type(skin_type, DEFAULT_MC_SKIN_REGIONS,
                               slim_regions(DEFAULT_MC_SKIN_REGIONS), img, target_type)
    IN  /\ Returns(Call("convert_skin_type", 0, target_type), r.ret)
        /\ skin_type' = r.skin_type
        /\ det_skin_type' = (IF r.detected THEN r.skin_type ELSE det_skin_type)
        /\ out_is_img' = r.same
        /\ canvases' = r.canvases
        /\ UNCHANGED saved

\* the caller passes the image a call returned to one further call
Feed ==
    /\ call # NoCall
    /\ IsImage(out)
    /\ chain = << >>
    /\ chain' = Append(chain, call)
    /\ img' = out
    /\ call' = NoCall
    /\ out' = NoneValue
    /\ out_is_img' = FALSE
    /\ canvases' = 0
    /\ UNCHANGED <<skin_type, det_skin_type, skin_regions, src, saved, folder, slim_pos>>

Next ==
    \/ Expand
    \/ Swap
    \/ TwiceSwap
    \/ \E layer_index \in LayerIndexes : RemoveLayer(layer_index)
    \/ \E layer_index \in LayerIndexes : FileRemoveLayer(layer_index)
    \/ AutoDetect
    \/ SteveToAlex
    \/ AlexToSteve
    \/ \E target_type \in TargetTypes : ConvertSkinType(target_type)
    \/ Feed

Spec == Init /\ [][Next]_vars

DetectNext ==
    \/ AutoDetect
    \/ SteveToAlex
    \/ AlexToSteve
    \/ \E target_type \in TargetTypes : ConvertSkinType(target_type)

DetectSpec == DetectInit /\ [][DetectNext]_vars

\* the caller converts an image and converts what came back once more
ChainTargets == {"regular", "slim", "steve", "alex"}

ChainInit == \E k \in 1 .. NumProbes : Construct("None", Probe(k))

ChainNext ==
    \/ \E target_type \in ChainTargets : ConvertSkinType(target_type)
    \/ Feed

ChainSpec == ChainInit /\ [][ChainNext]_vars

\* an MCSkinType object on its own: det_skin_type is its _skin_type and
\* skin_regions its regular_regions
TypeTokens == {"None", "regular", "steve", "slim", "alex", "bogus"}

TableValue(regions) == [tag |-> "table", value |-> regions]

\* MCSkinType(skin_type=t): the constructor stores t as it is
TypeInit ==
    \E t \in TypeTokens : \E k \in 1 .. NumInputs :
       /\ det_skin_type = t
       /\ skin_regions = DEFAULT_MC_SKIN_REGIONS
       /\ skin_type = "None"
       /\ src = Input(k)
       /\ img = Input(k)
       /\ call = NoCall
       /\ out = NoneValue
       /\ saved = NoneValue
       /\ chain = << >>
       /\ out_is_img = FALSE
       /\ canvases = 0
       /\ folder = NoneValue
       /\ slim_pos = NoneValue

\* the skin_type getter
GetSkinType ==
    /\ Returns(Call("skin_type", 0, ""),
               TypeValue(IF det_skin_type = "None" THEN "regular" ELSE det_skin_type))
    /\ det_skin_type' = (IF det_skin_type = "None" THEN "regular" ELSE det_skin_type)
    /\ UNCHANGED <<skin_type, saved, out_is_img, canvases>>

\* the skin_type setter
SetSkinType(value) ==
    /\ Returns(Call("set_skin_type", 0, value),
               IF value \in {"regular", "steve", "slim", "alex"} THEN NoneValue
               ELSE Raised("ValueError"))
    /\ det_skin_type' = (IF value \in {"regular", "steve", "slim", "alex"} THEN value
                         ELSE det_skin_type)
    /\ UNCHANGED <<skin_type, saved, out_is_img, canvases>>

\* the slim_regions property
GetSlimRegions ==
    /\ call = NoCall
    /\ call' = Call("slim_regions", 0, "")
    /\ out' = TableValue(slim_regions(skin_regions))
    /\ skin_regions' = regular_regions_after_read(skin_regions)
    /\ UNCHANGED <<skin_type, det_skin_type, src, img, saved, chain, out_is_img,
                   canvases, folder, slim_pos>>

\* the skin_regions property; it reads the type through the getter
GetSkinRegions ==
    LET r == type_skin_regions(det_skin_type, skin_regions)
    IN  /\ call = NoCall
        /\ call' = Call("skin_regions", 0, "")
        /\ out' = (IF r = Raised("ValueError") THEN r ELSE TableValue(r))
        /\ skin_regions' = (IF det_skin_type \in {"slim", "alex"}
                            THEN regular_regions_after_read(skin_regions)
                            ELSE skin_regions)
        /\ det_skin_type' = (IF det_skin_type = "None" THEN "regular" ELSE det_skin_type)
        /\ UNCHANGED <<skin_type, src, img, saved, chain, out_is_img, canvases,
                       folder, slim_pos>>

\* the caller drops the answer and goes on with the same object
Discard ==
    /\ call # NoCall
    /\ call' = NoCall
    /\ out' = NoneValue
    /\ UNCHANGED <<skin_type, det_skin_type, skin_regions, src, img, saved, chain,
                   out_is_img, canvases, folder, slim_pos>>

TypeNext ==
    \/ GetSkinType
    \/ \E value \in TypeTokens : SetSkinType(value)
    \/ GetSlimRegions
    \/ GetSkinRegions
    \/ AutoDetect
    \/ Discard

TypeSpec == TypeInit /\ [][TypeNext]_vars

\* an MCSkinRegionDetector asked about an image; skin_regions is its table
RegionLists ==
    {NoneValue, ListValue(<< >>), ListValue(<<"head">>),
     ListValue(<<"right_arm", "left_arm">>), ListValue(<<"left_leg">>),
     ListValue(<<"body", "cape">>)}

Layers == {NoneValue} \cup {IntValue(n) : n \in 1 .. 3}

DetectorCall(op, regions, layer) == [op |-> op, regions |-> regions, layer |-> layer]

\* MCSkinRegionDetector(skin_type=t) picks its table as MCSkinTools does
DetectorInit == \E t \in ToolTypes : \E k \in 1 .. NumInputs : Construct(t, Input(k))

HasPixels(regions, layer) ==
    /\ Returns(DetectorCall("has_pixels", regions, layer),
               has_pixels(skin_regions, regions, layer, img))
    /\ UNCHANGED <<skin_type, det_skin_type, saved, out_is_img, canvases>>

HasTransparency(regions, layer) ==
    /\ Returns(DetectorCall("has_transparency", regions, layer),
               has_transparency(skin_regions, regions, layer, img))
    /\ UNCHANGED <<skin_type, det_skin_type, saved, out_is_img, canvases>>

DetectorNext ==
    \/ \E regions \in RegionLists : \E layer \in Layers : HasPixels(regions, layer)
    \/ \E regions \in RegionLists : \E layer \in Layers :
          HasTransparency(regions, layer)

DetectorSpec == DetectorInit /\ [][DetectorNext]_vars

\* every operation applied once to the image the caller holds
FrameInit == \E t \in ToolTypes : \E k \in 1 .. NumInputs : Construct(t, Input(k))

FrameNext ==
    \/ Expand
    \/ Swap
    \/ TwiceSwap
    \/ \E layer_index \in LayerIndexes : RemoveLayer(layer_index)
    \/ AutoDetect
    \/ SteveToAlex
    \/ AlexToSteve
    \/ \E target_type \in TargetTypes : ConvertSkinType(target_type)
    \/ \E regions \in RegionLists : \E layer \in Layers : HasPixels(regions, layer)
    \/ \E regions \in RegionLists : \E layer \in Layers :
          HasTransparency(regions, layer)

FrameSpec == FrameInit /\ [][FrameNext]_vars

\* several callers share one MCSkinTools(skin_type='slim'): skin_regions is the
\* content of the one dict object type_detector._slim_regions, which is also
\* what tools.skin_regions and tools.slim_regions refer to; one caller reads
\* the slim_regions property statement by statement while another looks a
\* layer up in the table it holds
ShareInit == \E k \in 1 .. NumInputs : Construct("slim", Input(k))

SlimPos(layer, region) == [layer |-> layer, region |-> region]

\* d[key] = value on a dict
Put(d, key, value) ==
    [x \in DOMAIN d \cup {key} |-> IF x = key THEN value ELSE d[x]]

\* the property is entered; its first statement is still to run
BeginSlimRead ==
    /\ slim_pos = NoneValue
    /\ slim_pos' = SlimPos(1, 0)
    /\ UNCHANGED <<skin_type, det_skin_type, skin_regions, src, img, call, out, saved,
                   chain, out_is_img, canvases, folder>>

\* one statement of the property: self._slim_regions[layer_key] = {} when a
\* layer starts, self._slim_regions[layer_key][region_key] = ... for the
\* region at hand otherwise; after the last region of the last layer the
\* property returns
StepSlimRead ==
    /\ slim_pos # NoneValue
    /\ LET layer_key == LayerOrder[slim_pos.layer]
       IN  IF slim_pos.region = 0
           THEN skin_regions' = Put(skin_regions, layer_key, << >>)
           ELSE LET region_key == RegionOrder[slim_pos.region]
                IN  skin_regions' =
                      Put(skin_regions, layer_key,
                          Put(skin_regions[layer_key], region_key,
                              slim_regions(DEFAULT_MC_SKIN_REGIONS)[layer_key][region_key]))
    /\ slim_pos' = IF slim_pos.region < Len(RegionOrder)
                   THEN SlimPos(slim_pos.layer, slim_pos.region + 1)
                   ELSE IF slim_pos.layer < Len(LayerOrder)
                   THEN SlimPos(slim_pos.layer + 1, 0)
                   ELSE NoneValue
    /\ UNCHANGED <<skin_type, det_skin_type, src, img, call, out, saved, chain,
                   out_is_img, canvases, folder>>

\* self.skin_regions[layer_name] as swap and remove_layer evaluate it
LookupLayer(layer_name) ==
    /\ Returns([op |-> "lookup", layer |-> layer_name],
               TableValue(skin_regions[layer_name]))
    /\ UNCHANGED <<skin_type, det_skin_type, saved, out_is_img, canvases>>

ShareNext ==
    \/ BeginSlimRead
    \/ StepSlimRead
    \/ \E layer_name \in {"layer1", "layer2"} : LookupLayer(layer_name)
    \/ Discard

ShareSpec == ShareInit /\ [][ShareNext]_vars

\* ------------------------------------------------------ batch_convert_folder
\* a file name is its base (the tokens it is built from, so that "a" + "_out"
\* is the base of a_out.png) and its extension
FileName(base, ext) == [base |-> base, ext |-> ext]

\* str.lower() on the extensions that occur
Lower(ext) == IF ext = ".PNG" THEN ".png" ELSE ext

supported_extensions == {".png", ".jpg", ".jpeg"}

\* what Image.open finds in a file: an image of some size, or nothing
\* loadable (NoneValue, _load_skin answers None)
Loaded(w, h) == [tag |-> "image", w |-> w, h |-> h]

Entry(name, is_dir, content) == [name |-> name, is_dir |-> is_dir, content |-> content]

\* the directory entries a folder is made of: two files with the same base,
\* an upper-case extension on a file that does not load, a text file, a
\* directory with an image-like name, a file named like an output, an image
\* of a wrong size
Catalogue ==
    << Entry(FileName(<<"a">>, ".png"), FALSE, Loaded(64, 32)),
       Entry(FileName(<<"a">>, ".jpg"), FALSE, Loaded(64, 64)),
       Entry(FileName(<<"b">>, ".PNG"), FALSE, NoneValue),
       Entry(FileName(<<"notes">>, ".txt"), FALSE, NoneValue),
       Entry(FileName(<<"d">>, ".png"), TRUE, NoneValue),
       Entry(FileName(<<"a", "_out">>, ".png"), FALSE, Loaded(64, 64)),
       Entry(FileName(<<"c">>, ".jpeg"), FALSE, Loaded(32, 32)) >>

\* a Python object is told apart by its identity: the bound method the caller
\* passes is object 0, and every later evaluation of self.<name> makes a new
\* bound method object while object 0 is still alive
BoundMethod(name, id) == [tag |-> "method", name |-> name, id |-> id]

\* the local function convert_func of cli.main with the flags it closes over
Closure(flag, layer_index) == [tag |-> "closure", flag |-> flag, layer_index |-> layer_index]

FileResult(ret, writes) == [ret |-> ret, writes |-> writes]

\* MCSkinFileProcessor.convert_skin_64x32_to_64x64(input_path, output_path)
file_convert_skin_64x32_to_64x64(loaded) ==
    IF ~IsImage(loaded) THEN FileResult("False", FALSE)
    ELSE IF verify_skin_dimensions(loaded, 64, 64) THEN FileResult("True", FALSE)
    ELSE IF ~verify_skin_dimensions(loaded, 64, 32) THEN FileResult("False", FALSE)
    ELSE FileResult("True", TRUE)

\* MCSkinFileProcessor.swap_skin_layer2_to_layer1 and twice_swap_skin_layers
file_swap_skin_layer2_to_layer1(loaded) ==
    IF ~IsImage(loaded) THEN FileResult("False", FALSE)
    ELSE IF ~verify_skin_dimensions(loaded, 64, 64) THEN FileResult("False", FALSE)
    ELSE FileResult("True", TRUE)

\* MCSkinFileProcessor.remove_layer(input_file, output_file, layer_index)
file_remove_layer_to(loaded, layer_index) ==
    IF ~IsImage(loaded) THEN FileResult("False", FALSE)
    ELSE IF ~verify_skin_dimensions(loaded, 64, 64) THEN FileResult("False", FALSE)
    ELSE IF layer_index \notin {"1", "2"} THEN FileResult("False", FALSE)
    ELSE FileResult("True", TRUE)

\* convert_func(file_path, output_path) for the callables the repository
\* passes: a bound method of the processor (layer_index is then left at its
\* default None) or the closure of cli.main
call_convert_func(convert_func, loaded) ==
    IF convert_func.tag = "method"
    THEN IF convert_func.name = "convert_skin_64x32_to_64x64"
         THEN file_convert_skin_64x32_to_64x64(loaded)
         ELSE IF convert_func.name = "remove_layer"
         THEN file_remove_layer_to(loaded, "None")
         ELSE file_swap_skin_layer2_to_layer1(loaded)
    ELSE IF convert_func.flag = "convert" THEN file_convert_skin_64x32_to_64x64(loaded)
    ELSE IF convert_func.flag \in {"swap_layer2_to_layer1", "twice_swap_layer2_to_layer1"}
    THEN file_swap_skin_layer2_to_layer1(loaded)
    ELSE IF convert_func.flag = "remove_layer"
    THEN file_remove_layer_to(loaded, convert_func.layer_index)
    ELSE FileResult("None", FALSE)

\* the suffix chosen by `convert_func is self.<method>`: each self.<method>
\* is a bound method object made for the comparison
output_suffix(convert_func, layer_index) ==
    IF convert_func = BoundMethod("convert_skin_64x32_to_64x64", 1) THEN <<"_64x64">>
    ELSE IF convert_func = BoundMethod("swap_skin_layer2_to_layer1", 1) THEN <<"_swap">>
    ELSE IF convert_func = BoundMethod("remove_layer", 1) THEN <<"_rm_layer", layer_index>>
    ELSE <<"_out">>

\* an existing output is passed over whatever overwrite says
skip_existing_always(exists, overwrite) == exists

\* os.path.exists(output_path) and not overwrite
skip_existing(exists, overwrite) == exists /\ ~overwrite

\* the counters and the file system while the loop runs; log has one entry
\* per file counted in total_files
BatchState(files) ==
    [files |-> files, total_files |-> 0, converted_files |-> 0, skipped_files |-> 0,
     error_files |-> 0, log |-> << >>]

LogEntry(name, output, existed, invoked, ret) ==
    [name |-> name, output |-> output, existed |-> existed, invoked |-> invoked, ret |-> ret]

\* one round of `for filename in os.listdir(input_folder)`
batch_file(entry, convert_func, layer_index, overwrite, st) ==
    IF entry.is_dir THEN st
    ELSE IF Lower(entry.name.ext) \notin supported_extensions THEN st
    ELSE LET output == FileName(entry.name.base \o output_suffix(convert_func, layer_index),
                                ".png")
             exists == output \in st.files
             counted == [st EXCEPT !.total_files = @ + 1]
         IN  IF skip_existing(exists, overwrite)
             THEN [counted EXCEPT !.skipped_files = @ + 1,
                                  !.log = Append(@, LogEntry(entry.name, output, exists,
                                                             FALSE, "None"))]
             ELSE LET r == call_convert_func(convert_func, entry.content)
                      done == [counted EXCEPT
                                 !.files = IF r.writes THEN @ \cup {output} ELSE @,
                                 !.log = Append(@, LogEntry(entry.name, output, exists,
                                                            TRUE, r.ret))]
                  IN  IF r.ret = "True"
                      THEN [done EXCEPT !.converted_files = @ + 1]
                      ELSE [done EXCEPT !.error_files = @ + 1]

RECURSIVE batch_loop(_, _, _, _, _, _)
batch_loop(listing, i, convert_func, layer_index, overwrite, st) ==
    IF i > Len(listing) THEN st
    ELSE batch_loop(listing, i + 1, convert_func, layer_index, overwrite,
                    batch_file(listing[i], convert_func, layer_index, overwrite, st))

\* MCSkinFileProcessor.batch_convert_folder on an existing input folder
batch_convert_folder(convert_func, input_folder, layer_index, overwrite) ==
    batch_loop(input_folder.listing, 1, convert_func, layer_index, overwrite,
               BatchState(input_folder.outputs))

\* the entries of the catalogue picked by a set of positions, in order
RECURSIVE Listing(_, _)
Listing(picked, i) ==
    IF i > Len(Catalogue) THEN << >>
    ELSE (IF i \in picked THEN <<Catalogue[i]>> ELSE << >>) \o Listing(picked, i + 1)

Names(listing) == {listing[i].name : i \in DOMAIN listing}

\* an input folder and the names present in the output folder: the input
\* folder itself when no output folder is given, else a folder that is empty
\* or holds a_out.png
Folder(listing, outputs) == [listing |-> listing, outputs |-> outputs]

BatchInit ==
    \E picked \in SUBSET (1 .. Len(Catalogue)) :
       \E outputs \in {Names(Listing(picked, 1)), {}, {FileName(<<"a", "_out">>, ".png")}} :
          /\ folder = Folder(Listing(picked, 1), outputs)
          /\ skin_type = "None"
          /\ det_skin_type = "regular"
          /\ skin_regions = init_skin_regions("None")
          /\ src = NoneValue
          /\ img = NoneValue
          /\ call = NoCall
          /\ out = NoneValue
          /\ saved = NoneValue
          /\ chain = << >>
          /\ out_is_img = FALSE
          /\ canvases = 0
          /\ slim_pos = NoneValue

\* the callables the test and the command line pass
ConvertFuncs ==
    {BoundMethod(name, 0) :
        name \in {"convert_skin_64x32_to_64x64", "swap_skin_layer2_to_layer1",
                  "twice_swap_skin_layers", "remove_layer"}}
    \cup {Closure(flag, "None") :
             flag \in {"convert", "swap_layer2_to_layer1", "twice_swap_layer2_to_layer1"}}
    \cup {Closure("remove_layer", "1"), Closure("remove_layer", "2")}

BatchCall(convert_func, layer_index, overwrite) ==
    [op |-> "batch_convert_folder", convert_func |-> convert_func,
     layer_index |-> layer_index, overwrite |-> overwrite]

BatchConvertFolder(convert_func, layer_index, overwrite) ==
    LET st == batch_convert_folder(convert_func, folder, layer_index, overwrite)
    IN  /\ call = NoCall
        /\ call' = BatchCall(convert_func, layer_index, overwrite)
        /\ out' = [tag |-> "summary", total_files |-> st.total_files,
                   converted_files |-> st.converted_files,
                   skipped_files |-> st.skipped_files,
                   error_files |-> st.error_files, log |-> st.log]
        /\ folder' = [folder EXCEPT !.outputs = st.files]
        /\ UNCHANGED <<skin_type, det_skin_type, skin_regions, src, img, saved, chain,
                       out_is_img, canvases, slim_pos>>

BatchNext ==
    \E convert_func \in ConvertFuncs : \E layer_index \in {"None", "1"} :
       \E overwrite \in BOOLEAN :
          BatchConvertFolder(convert_func, layer_index, overwrite)

BatchSpec == BatchInit /\ [][BatchNext]_vars

\* one MCSkinTools instance built with any token, on which conversions and
\* detections alternate with the operations that read its table
TableInit == \E t \in TypeTokens : \E k \in 1 .. NumInputs : Construct(t, Input(k))

TableNext ==
    \/ \E target_type \in {"None", "regular", "slim"} : ConvertSkinType(target_type)
    \/ SteveToAlex
    \/ AlexToSteve
    \/ AutoDetect
    \/ Expand
    \/ Swap
    \/ \E layer_index \in 1 .. 2 : RemoveLayer(layer_index)
    \/ Discard

TableSpec == TableInit /\ [][TableNext]_vars

\* ------------------------------------------------------------------ claims
BodyParts == {"head", "body", "right_arm", "left_arm", "right_leg", "left_leg"}

Is64x64(image) == IsImage(image) /\ image.w = 64 /\ image.h = 64

Is64x32(image) == IsImage(image) /\ image.w = 64 /\ image.h = 32

\* every offset inside box a reads in image p as the same offset of box b in q
SameBlock(p, a, q, b) ==
    \A dx \in 0 .. a[3] - a[1] - 1 : \A dy \in 0 .. a[4] - a[2] - 1 :
       GetPixel(p, a[1] + dx, a[2] + dy) = GetPixel(q, b[1] + dx, b[2] + dy)

\* (x, y) lies in a rectangle of the given layers and body parts of the table
InTable(x, y, regions, layers, parts) ==
    \E l \in layers : \E b \in parts : \E k \in DOMAIN regions[l][b] :
       InBox(x, y, regions[l][b][k].coords)

\* C1: after swap_skin_layer2_to_layer1 on a 64x64 image, for every body
\* part and ordinal the output block at the layer1 rectangle is the input
\* block at the layer2 rectangle and the output block at the layer2
\* rectangle is the input block at the layer1 rectangle; in particular
\* output (40,0) = input (8,0) and output (8,0) = input (40,0).
C1_SwapRemap ==
    (call.op = "swap" /\ Is64x64(img)) =>
        /\ Is64x64(out)
        /\ \A b \in BodyParts : \A k \in DOMAIN skin_regions["layer1"][b] :
             LET c1 == skin_regions["layer1"][b][k].coords
                 c2 == skin_regions["layer2"][b][k].coords
             IN  /\ SameBlock(out, c1, img, c2)
                 /\ SameBlock(out, c2, img, c1)
        /\ GetPixel(out, 40, 0) = GetPixel(img, 8, 0)
        /\ GetPixel(out, 8, 0) = GetPixel(img, 40, 0)

\* the swap test: the green head1_layer1 block has moved to head1_layer2
C1_Witness ==
    /\ call.op = "swap"
    /\ img = test_img(64)
    /\ GetPixel(out, 40, 0) = Green
    /\ GetPixel(out, 8, 0) = Red

\* C2: twice_swap_skin_layer on a 64x64 image returns the input at every
\* pixel inside a rectangle of the table (either layer) and (0,0,0,0) at
\* every pixel outside all of them.
C2_TwiceSwapRestricts ==
    (call.op = "twice_swap" /\ Is64x64(img)) =>
        /\ Is64x64(out)
        /\ \A x \in 0 .. 63 : \A y \in 0 .. 63 :
             GetPixel(out, x, y) =
               IF InTable(x, y, skin_regions, {"layer1", "layer2"}, BodyParts)
               THEN GetPixel(img, x, y) ELSE Transparent

\* a red pixel outside the table is cleared, the green head is kept
C2_Witness ==
    /\ call.op = "twice_swap"
    /\ Is64x64(img)
    /\ GetPixel(img, 0, 0) = Red
    /\ GetPixel(out, 0, 0) = Transparent
    /\ GetPixel(out, 8, 0) = Green

\* C3: convert_skin_64x32_to_64x64 on a 64x32 image returns a 64x64 image
\* that equals the input on every layer1 head, body, right_arm and right_leg
\* rectangle and on every layer2 head rectangle.
C3_ExpandKeepsLegacy ==
    (call.op = "expand" /\ Is64x32(img)) =>
        /\ Is64x64(out)
        /\ \A b \in {"head", "body", "right_arm", "right_leg"} :
             \A k \in DOMAIN skin_regions["layer1"][b] :
               SameBlock(out, skin_regions["layer1"][b][k].coords,
                         img, skin_regions["layer1"][b][k].coords)
        /\ \A k \in DOMAIN skin_regions["layer2"]["head"] :
             SameBlock(out, skin_regions["layer2"]["head"][k].coords,
                       img, skin_regions["layer2"]["head"][k].coords)

\* the expand test: the green head and the yellow right arm are kept
C3_Witness ==
    /\ call.op = "expand"
    /\ img = test_img(32)
    /\ GetPixel(out, 8, 0) = Green
    /\ GetPixel(out, 40, 20) = Yellow
    /\ GetPixel(out, 40, 0) = Red

\* C4: convert_skin_64x32_to_64x64 copies the right limbs to the left limbs
\* verbatim: the output at offset (dx,dy) of left_arm[k]_layer1 is the input
\* at the same offset of right_arm[k]_layer1, and likewise for the legs.
C4_ExpandCopiesVerbatim ==
    (call.op = "expand" /\ Is64x32(img)) =>
        /\ IsImage(out)
        /\ \A k \in DOMAIN skin_regions["layer1"]["left_arm"] :
             SameBlock(out, skin_regions["layer1"]["left_arm"][k].coords,
                       img, skin_regions["layer1"]["right_arm"][k].coords)
        /\ \A k \in DOMAIN skin_regions["layer1"]["left_leg"] :
             SameBlock(out, skin_regions["layer1"]["left_leg"][k].coords,
                       img, skin_regions["layer1"]["right_leg"][k].coords)

\* a right arm whose columns all differ arrives unmirrored at the left arm
C4_Witness ==
    /\ call.op = "expand"
    /\ img = Gradient(32)
    /\ GetPixel(out, 32, 52) = <<40, 20, 7, 255>>
    /\ GetPixel(out, 16, 52) = <<0, 20, 7, 255>>

\* C5: in the output of convert_skin_64x32_to_64x64 on a 64x32 image every
\* pixel outside the layer1 rectangles (all six body parts) and outside the
\* layer2 head rectangles is (0,0,0,0); so every layer2 body, arm and leg
\* rectangle is fully transparent.
C5_ExpandRestTransparent ==
    (call.op = "expand" /\ Is64x32(img)) =>
        /\ Is64x64(out)
        /\ \A x \in 0 .. 63 : \A y \in 0 .. 63 :
             (/\ ~InTable(x, y, skin_regions, {"layer1"}, BodyParts)
              /\ ~InTable(x, y, skin_regions, {"layer2"}, {"head"}))
             => GetPixel(out, x, y) = Transparent
        /\ \A x \in 0 .. 63 : \A y \in 0 .. 63 :
             InTable(x, y, skin_regions, {"layer2"}, BodyParts \ {"head"})
             => GetPixel(out, x, y) = Transparent

\* the expand test: the red canvas does not reach the untabled corner nor the
\* new lower half
C5_Witness ==
    /\ call.op = "expand"
    /\ img = test_img(32)
    /\ GetPixel(img, 0, 0) = Red
    /\ GetPixel(out, 0, 0) = Transparent
    /\ GetPixel(out, 0, 32) = Transparent

\* C6: remove_layer(img, k) for k in {1, 2} on a 64x64 image returns a 64x64
\* image that equals the input at every pixel inside a rectangle of the
\* other layer (layer 3-k) and is (0,0,0,0) at every other pixel, the
\* rectangles of layer k included.
C6_RemoveLayerKeepsOther ==
    (call.op = "remove_layer" /\ call.layer_index \in {1, 2} /\ Is64x64(img)) =>
        /\ Is64x64(out)
        /\ \A x \in 0 .. 63 : \A y \in 0 .. 63 :
             GetPixel(out, x, y) =
               IF InTable(x, y, skin_regions,
                          {IF call.layer_index = 1 THEN "layer2" ELSE "layer1"}, BodyParts)
               THEN GetPixel(img, x, y) ELSE Transparent

\* the remove test: without layer 1 the green head is gone, the red
\* head1_layer2 stays
C6_Witness ==
    /\ call.op = "remove_layer"
    /\ call.layer_index = 1
    /\ img = test_img(64)
    /\ GetPixel(out, 8, 0) = Transparent
    /\ GetPixel(out, 40, 0) = Red

IsRemove(c, k) == c.op = "remove_layer" /\ c.layer_index = k

\* C7: for every 64x64 image, removing layer 1 and then layer 2 from the
\* result (or layer 2 and then layer 1) leaves a fully transparent 64x64
\* canvas.
C7_RemoveBothLayersBlank ==
    (/\ Is64x64(src)
     /\ Len(chain) = 1
     /\ \/ IsRemove(chain[1], 1) /\ IsRemove(call, 2)
        \/ IsRemove(chain[1], 2) /\ IsRemove(call, 1))
    => out = ImageNew(64, 64, Transparent)

\* layer 1 and then layer 2 have been removed from the test image
C7_Witness ==
    /\ src = test_img(64)
    /\ Len(chain) = 1
    /\ IsRemove(chain[1], 1)
    /\ IsRemove(call, 2)
    /\ GetPixel(img, 40, 0) = Red
    /\ IsImage(out)

\* C8: remove_layer with a layer index outside {1, 2} returns None, and the
\* file-level remove_layer then returns False and writes no output file.
C8_InvalidLayerIndex ==
    /\ (call.op = "remove_layer" /\ call.layer_index \notin {1, 2})
         => out = NoneValue
    /\ (call.op = "file_remove_layer" /\ call.layer_index \notin {1, 2})
         => (out = BoolValue(FALSE) /\ saved = NoneValue)

\* the remove test: index 3 on the 64x64 test image
C8_Witness ==
    /\ call.op = "remove_layer"
    /\ call.layer_index = 3
    /\ img = test_img(64)
    /\ out = NoneValue

\* C9: auto_detect_skin_type on a 64x64 image answers 'regular' exactly when
\* some pixel in the rightmost two columns of one of the eight wide arm
\* rectangles has alpha > 0, and 'slim' otherwise, whatever the other pixels
\* are; a fully transparent image is 'slim'.
C9_DetectOuterColumns ==
    (call.op = "auto_detect" /\ Is64x64(img)) =>
        /\ out = TypeValue(
             IF \E c \in WideArmBoxes :
                  \E x \in c[3] - 2 .. c[3] - 1 : \E y \in c[2] .. c[4] - 1 :
                    GetPixel(img, x, y)[4] > 0
             THEN "regular" ELSE "slim")
        /\ (img = ImageNew(64, 64, Transparent) => out = TypeValue("slim"))

\* a skin full of content but with empty outer arm columns is 'slim' ...
C9_Witness ==
    /\ call.op = "auto_detect"
    /\ img = SlimGradient
    /\ out = TypeValue("slim")

\* the pixels the narrow table keeps as the last two columns of an arm
InLastNarrowColumns(x, y) ==
    \E c \in WideArmBoxes : InBox(x, y, <<c[3] - 4, c[2], c[3] - 2, c[4]>>)

Detected(image) == auto_detect_skin_type(DEFAULT_MC_SKIN_REGIONS, image)

\* C10 as stated: for every 64x64 image and target T in {slim, regular},
\* convert_skin_type(img, T) is a 64x64 image that auto-detection classifies
\* as T.
C10_Original ==
    (/\ call.op = "convert_skin_type"
     /\ call.target_type \in {"slim", "regular"}
     /\ Is64x64(img))
    => (Is64x64(out) /\ Detected(out) = call.target_type)

\* C10 amended: convert_skin_type(img, 'slim') is a 64x64 image classified
\* 'slim'; convert_skin_type(img, 'regular') is a 64x64 image classified
\* 'regular' exactly when img is classified 'regular' or has a pixel with
\* alpha > 0 in the last two columns of one of the eight narrow arm
\* rectangles, and 'slim' otherwise.
C10_ConvertClassification ==
    (/\ call.op = "convert_skin_type"
     /\ call.target_type \in {"slim", "regular"}
     /\ Is64x64(img))
    => /\ Is64x64(out)
       /\ call.target_type = "slim" => Detected(out) = "slim"
       /\ call.target_type = "regular" =>
            Detected(out) =
              IF \/ Detected(img) = "regular"
                 \/ \E x \in 0 .. 63 : \E y \in 0 .. 63 :
                      InLastNarrowColumns(x, y) /\ GetPixel(img, x, y)[4] > 0
              THEN "regular" ELSE "slim"

\* a skin classified 'regular' has been narrowed: the result is another image
\* and is classified 'slim'
C10_Witness ==
    /\ call.op = "convert_skin_type"
    /\ call.target_type = "slim"
    /\ Detected(img) = "regular"
    /\ Is64x64(out)
    /\ out # img
    /\ Detected(out) = "slim"

SlimTokens == {"slim", "alex"}

RegularTokens == {"regular", "steve"}

\* the call at hand is convert_skin_type(., second) on what
\* convert_skin_type(src, first) returned
IsConvertChain(first, second) ==
    /\ Len(chain) = 1
    /\ chain[1].op = "convert_skin_type"
    /\ chain[1].target_type \in first
    /\ call.op = "convert_skin_type"
    /\ call.target_type \in second

\* C11 as stated: for every 64x64 image classified 'regular',
\* convert_skin_type(convert_skin_type(img, 'slim'), 'regular') is
\* classified 'regular' again.
C11_Original ==
    (/\ IsConvertChain(SlimTokens, RegularTokens)
     /\ Is64x64(src)
     /\ Detected(src) = "regular")
    => Detected(out) = "regular"

\* the columns of an arm rectangle, counted from its left edge, that end up
\* as its two outer columns after narrowing and widening
RoundTripOuter(arm_side, k) ==
    IF k = 1 THEN (IF arm_side = "right_arm" THEN {5, 7} ELSE {6, 7})
    ELSE (IF arm_side = "right_arm" THEN {14, 15} ELSE {13, 15})

HasRoundTripOuter(image) ==
    \E l \in {"layer1", "layer2"} : \E a \in {"right_arm", "left_arm"} :
      \E k \in 1 .. 2 :
        LET c == DEFAULT_MC_SKIN_REGIONS[l][a][k].coords
        IN  \E dx \in RoundTripOuter(a, k) : \E y \in c[2] .. c[4] - 1 :
              GetPixel(image, c[1] + dx, y)[4] > 0

\* C11 amended: for every 64x64 image classified 'regular',
\* convert_skin_type(convert_skin_type(img, 'slim'), 'regular') is a 64x64
\* image, classified 'regular' exactly when img has a pixel with alpha > 0 in
\* a column that narrowing keeps as one of the last two of an arm rectangle
\* (columns 5 and 7 of right_arm part 1, 6 and 7 of left_arm part 1, 14 and
\* 15 of right_arm part 2, 13 and 15 of left_arm part 2), and 'slim'
\* otherwise.
C11_RoundTrip ==
    (/\ IsConvertChain(SlimTokens, RegularTokens)
     /\ Is64x64(src)
     /\ Detected(src) = "regular")
    => /\ Is64x64(out)
       /\ Detected(out) = IF HasRoundTripOuter(src) THEN "regular" ELSE "slim"

\* a skin classified 'regular' through its outermost arm column has been
\* narrowed and widened and is classified 'regular' again
C11_Witness ==
    /\ IsConvertChain({"slim"}, {"regular"})
    /\ Detected(src) = "regular"
    /\ Detected(img) = "slim"
    /\ HasRoundTripOuter(src)
    /\ Detected(out) = "regular"
    /\ out # src

\* img converted to the type opposite to the one detected on it
OppositeOf(image) ==
    IF Detected(image) \in RegularTokens
    THEN steve_to_alex(DEFAULT_MC_SKIN_REGIONS,
                       slim_regions(DEFAULT_MC_SKIN_REGIONS), image).ret
    ELSE alex_to_steve(DEFAULT_MC_SKIN_REGIONS,
                       slim_regions(DEFAULT_MC_SKIN_REGIONS), image).ret

\* C12 as stated: convert_skin_type called without a target type detects the
\* type of the image passed in that call and returns that image converted to
\* the opposite type, whatever skin_type the instance was constructed with
\* and whatever type it remembers from an earlier call.
C12_Original ==
    (/\ call.op = "convert_skin_type"
     /\ call.target_type = "None"
     /\ Is64x64(img))
    => /\ out = OppositeOf(img)
       /\ skin_type = Detected(img)

\* the detected type and the target token name the same type
SameType(detected, target) ==
    \/ detected \in SlimTokens /\ target \in SlimTokens
    \/ detected \in RegularTokens /\ target \in RegularTokens

\* the call is convert_skin_type on a 64x64 image whose detected type is
\* already the target
IsConvertToOwnType ==
    /\ call.op = "convert_skin_type"
    /\ call.target_type \in ChainTargets
    /\ Is64x64(img)
    /\ SameType(Detected(img), call.target_type)

\* C13 as stated: when the detected type of the image already equals the
\* target (aliases included), convert_skin_type returns the input image
\* itself, unchanged, and allocates no canvas; and convert_skin_type(., T) is
\* idempotent: converting the result to T again returns the same image.
C13_Original ==
    /\ IsConvertToOwnType => (out = img /\ out_is_img /\ canvases = 0)
    /\ (/\ \/ IsConvertChain(SlimTokens, SlimTokens)
            \/ IsConvertChain(RegularTokens, RegularTokens)
         /\ Is64x64(src))
       => out = img

\* C13 amended: when the detected type of the image already equals the
\* target (aliases included), convert_skin_type returns the input image
\* itself, unchanged, and allocates no canvas; converting to slim twice
\* returns the first result itself; converting to regular twice returns the
\* first result itself exactly when that result is classified regular, and
\* otherwise widens it once more on a new canvas.
C13_ReturnsInput ==
    /\ IsConvertToOwnType => (out = img /\ out_is_img /\ canvases = 0)
    /\ (IsConvertChain(SlimTokens, SlimTokens) /\ Is64x64(src))
       => (out = img /\ out_is_img /\ canvases = 0)
    /\ (IsConvertChain(RegularTokens, RegularTokens) /\ Is64x64(src))
       => /\ out_is_img <=> Detected(img) = "regular"
          /\ out_is_img => (out = img /\ canvases = 0)
          /\ ~out_is_img => (Is64x64(out) /\ canvases = 1)

\* a regular skin was narrowed with target alex; narrowing the result with
\* target slim hands the result back
C13_Witness ==
    /\ IsConvertChain({"alex"}, {"slim"})
    /\ Detected(src) = "regular"
    /\ img # src
    /\ IsConvertToOwnType
    /\ out = img
    /\ out_is_img
    /\ canvases = 0

\* C14: convert_skin_type with a target token outside {steve, alex, regular,
\* slim} returns None, runs no detection and no conversion (the detector's
\* type stays, no canvas is allocated) and leaves the remembered skin_type
\* as it was.
C14_InvalidTarget ==
    [][(/\ call = NoCall
        /\ call'.op = "convert_skin_type"
        /\ call'.target_type \notin ChainTargets \cup {"None"})
       => (/\ out' = NoneValue
           /\ skin_type' = skin_type
           /\ det_skin_type' = det_skin_type
           /\ canvases' = 0
           /\ out_is_img' = FALSE)]_vars

\* an unknown target on a tool without skin type whose detector says
\* 'regular', given an image that detection would have called 'slim'
C14_Witness ==
    /\ call.op = "convert_skin_type"
    /\ call.target_type = "bogus"
    /\ Detected(img) = "slim"
    /\ det_skin_type = "regular"
    /\ skin_type = "None"
    /\ out = NoneValue

\* C15 as stated: convert_skin_64x32_to_64x64 applied to a 64x64 image is a
\* passthrough: the image it returns equals the input at every pixel.
C15_Original ==
    (call.op = "expand" /\ Is64x64(img)) => out = img

\* the in-memory operations that work on a 64x64 image only
Needs64x64 == {"swap", "twice_swap", "remove_layer", "convert_skin_type"}

\* C16 as stated: every operation validates the dimensions of its input
\* (64x32 or 64x64 for expand, 64x64 for the others) before it allocates its
\* output canvas, and on a mismatch returns no image and writes no file.
C16_Original ==
    /\ (call.op \in Needs64x64 /\ ~Is64x64(img))
         => (~IsImage(out) /\ canvases = 0)
    /\ (call.op = "expand" /\ ~Is64x64(img) /\ ~Is64x32(img))
         => (~IsImage(out) /\ canvases = 0)
    /\ (call.op = "file_remove_layer" /\ ~Is64x64(img))
         => (out = BoolValue(FALSE) /\ saved = NoneValue /\ canvases = 0)

\* the narrow table is the wide one with the right edge of every arm part
\* moved left by 2 and everything else as it is
NarrowOf(narrow, wide) ==
    /\ DOMAIN narrow = DOMAIN wide
    /\ \A l \in DOMAIN wide :
         /\ DOMAIN narrow[l] = DOMAIN wide[l]
         /\ \A b \in DOMAIN wide[l] :
              IF b \in {"right_arm", "left_arm"}
              THEN /\ DOMAIN narrow[l][b] = DOMAIN wide[l][b]
                   /\ \A k \in DOMAIN wide[l][b] :
                        LET n == narrow[l][b][k]
                            w == wide[l][b][k]
                        IN  /\ n.name = w.name
                            /\ n.coords[1] = w.coords[1]
                            /\ n.coords[2] = w.coords[2]
                            /\ n.coords[3] = w.coords[3] - 2
                            /\ n.coords[4] = w.coords[4]
              ELSE narrow[l][b] = wide[l][b]

\* C17: the table slim_regions answers, which is also the table skin_regions
\* answers for the types slim and alex, has for every layer and every part
\* of right_arm and left_arm the wide rectangle with only the right edge
\* reduced by 2 (left, top, bottom and name equal) and every other body part
\* as in the wide table: right_arm1_layer1 is 8 wide in the regular table
\* and 6 wide in the slim one, head1_layer1 is [8,0,24,8] in both.
C17_NarrowTable ==
    (\/ call.op = "slim_regions"
     \/ call.op = "skin_regions" /\ det_skin_type \in {"slim", "alex"})
    => /\ out.tag = "table"
       /\ NarrowOf(out.value, skin_regions)
       /\ LET n == out.value["layer1"]["right_arm"][1].coords
               w == skin_regions["layer1"]["right_arm"][1].coords
           IN  n[3] - n[1] = 6 /\ w[3] - w[1] = 8
       /\ out.value["layer1"]["head"][1].coords = <<8, 0, 24, 8>>
       /\ skin_regions["layer1"]["head"][1].coords = <<8, 0, 24, 8>>

\* the slim-table test: an object of type slim answers skin_regions with
\* right_arm1_layer1 at [44,16,50,20]
C17_Witness ==
    /\ call.op = "skin_regions"
    /\ det_skin_type = "slim"
    /\ out.tag = "table"
    /\ out.value["layer1"]["right_arm"][1] =
         Part(<<"right", "arm", "1", "layer1">>, <<44, 16, 50, 20>>)
    /\ out.value["layer2"]["left_arm"][2].coords[3] =
         skin_regions["layer2"]["left_arm"][2].coords[3] - 2

\* C18: reading skin_regions of an MCSkinType whose type is a token outside
\* {regular, steve, slim, alex} raises ValueError and answers no table;
\* assigning such a token through the skin_type setter raises ValueError and
\* leaves the stored type as it was.
C18_InvalidType ==
    /\ [](call.op = "skin_regions" =>
            IF det_skin_type \in ValidTypes THEN out.tag = "table"
            ELSE out = Raised("ValueError"))
    /\ [][(/\ call = NoCall
            /\ call'.op = "set_skin_type"
            /\ call'.target_type \notin ValidTypes)
           => (out' = Raised("ValueError") /\ det_skin_type' = det_skin_type)]_vars

\* the invalid-type test: MCSkinType('invalid_type').skin_regions raises
C18_Witness ==
    /\ call.op = "skin_regions"
    /\ det_skin_type = "bogus"
    /\ out = Raised("ValueError")

\* some part of a selected layer and body part lies entirely inside the
\* image and holds a pixel whose alpha is 0 (zero) or above 0 (not zero)
SelectedPartHas(image, regions, layers, parts, zero) ==
    \E l \in layers : \E b \in parts \cap DOMAIN regions[l] :
      \E k \in DOMAIN regions[l][b] :
        LET c == regions[l][b][k].coords
        IN  /\ c[1] >= 0 /\ c[2] >= 0 /\ c[3] <= image.w /\ c[4] <= image.h
            /\ \E x \in c[1] .. c[3] - 1 : \E y \in c[2] .. c[4] - 1 :
                  IF zero THEN GetPixel(image, x, y)[4] = 0
                  ELSE GetPixel(image, x, y)[4] > 0

\* C19: has_pixels(regions, layer, img) is true iff some part of a selected
\* (layer, region) whose rectangle lies entirely within the image holds a
\* pixel with alpha > 0, and has_transparency iff such a part holds a pixel
\* with alpha = 0; parts reaching beyond the image (rows >= 32 of a 64x32
\* image) do not count; no regions means all six body parts, no layer means
\* both layers.
C19_RegionDetector ==
    (/\ call.op \in {"has_pixels", "has_transparency"}
     /\ \/ call.layer = NoneValue
        \/ call.layer.value \in {1, 2})
    => LET layers == IF call.layer = NoneValue THEN {"layer1", "layer2"}
                     ELSE IF call.layer.value = 1 THEN {"layer1"} ELSE {"layer2"}
           parts == IF call.regions = NoneValue THEN BodyParts
                    ELSE {call.regions.items[j] : j \in DOMAIN call.regions.items}
       IN  out = BoolValue(SelectedPartHas(img, skin_regions, layers, parts,
                                           call.op = "has_transparency"))

\* a 64x32 image without a transparent pixel: nothing is found transparent
\* with the defaults, although the parts below row 32 lie outside it
C19_Witness ==
    /\ call.op = "has_transparency"
    /\ call.regions = NoneValue
    /\ call.layer = NoneValue
    /\ img = Gradient(32)
    /\ out = BoolValue(FALSE)

Transformations ==
    {"expand", "swap", "twice_swap", "remove_layer", "convert_skin_type",
     "steve_to_alex", "alex_to_steve"}

\* C20 as stated: every operation leaves every pixel of its input as it
\* was, and every transformation that returns an image returns a newly
\* allocated canvas, an object other than its input.
C20_Original ==
    /\ img = src
    /\ (call.op \in Transformations /\ IsImage(out))
         => (~out_is_img /\ canvases >= 1)

\* C20 amended: every operation leaves every pixel of its input as it was;
\* expand, swap, twice-swap and remove_layer return a newly allocated canvas
\* whenever they return an image; convert_skin_type, steve_to_alex and
\* alex_to_steve return a newly allocated canvas when the type detected on
\* the input differs from the type converted to, and the input object itself
\* when it is the same; detection and has_pixels / has_transparency return no
\* image.
C20_Frame ==
    /\ img = src
    /\ (call.op \in {"expand", "swap", "twice_swap", "remove_layer"} /\ IsImage(out))
         => (~out_is_img /\ canvases >= 1)
    /\ (call.op \in {"convert_skin_type", "steve_to_alex", "alex_to_steve"}
         /\ IsImage(out) /\ Is64x64(img))
         => /\ out_is_img <=> canvases = 0
            /\ out_is_img => out = img
            /\ call.op = "steve_to_alex" => (out_is_img <=> Detected(img) = "slim")
            /\ call.op = "alex_to_steve" => (out_is_img <=> Detected(img) = "regular")
            /\ call.target_type \in ChainTargets
                 => (out_is_img <=> SameType(Detected(img), call.target_type))
    /\ call.op \in {"auto_detect", "has_pixels", "has_transparency"}
         => (~IsImage(out) /\ ~out_is_img /\ canvases = 0)

\* the 64x64 test image was narrowed: the answer is a new canvas and the
\* image handed in still shows its green head and yellow right arm
C20_Witness ==
    /\ call.op = "convert_skin_type"
    /\ call.target_type = "slim"
    /\ src = test_img(64)
    /\ img = src
    /\ IsImage(out)
    /\ out # img
    /\ ~out_is_img
    /\ canvases = 1

\* how many rectangles a table holds
RECURSIVE CountParts(_, _)
CountParts(regions, keys) ==
    IF keys = {} THEN 0
    ELSE LET key == CHOOSE x \in keys : TRUE
         IN  Len(regions[key[1]][key[2]]) + CountParts(regions, keys \ {key})

C22_Original ==
    call.op = "lookup" =>
        \/ out.value = slim_regions(DEFAULT_MC_SKIN_REGIONS)[call.layer]
        \/ out.value = DEFAULT_MC_SKIN_REGIONS[call.layer]

\* the files batch_convert_folder has to consider: the entries of the listing
\* that are no directory and end in .png, .jpg or .jpeg in any case
RECURSIVE ImageFiles(_, _)
ImageFiles(listing, i) ==
    IF i > Len(listing) THEN << >>
    ELSE (IF /\ ~listing[i].is_dir
             /\ listing[i].name.ext \in {".png", ".PNG", ".jpg", ".jpeg"}
          THEN <<listing[i].name>> ELSE << >>) \o ImageFiles(listing, i + 1)

Count(log, Test(_)) == Cardinality({i \in DOMAIN log : Test(log[i])})

WasSkipped(e) == ~e.invoked
WasConverted(e) == e.invoked /\ e.ret = "True"
WasError(e) == e.invoked /\ e.ret # "True"

\* C23: after batch_convert_folder the files considered are exactly the image
\* files of the listing, each once and in order (so a file that fails does
\* not stop the later ones); each is counted in exactly one of converted,
\* skipped and errors, total_files being their sum; and the conversion was
\* not invoked on a file exactly when its output path existed at that moment
\* and overwrite was not set.
C23_BatchSummary ==
    call.op = "batch_convert_folder" =>
        /\ [i \in DOMAIN out.log |-> out.log[i].name] = ImageFiles(folder.listing, 1)
        /\ out.total_files = Len(out.log)
        /\ out.skipped_files = Count(out.log, WasSkipped)
        /\ out.converted_files = Count(out.log, WasConverted)
        /\ out.error_files = Count(out.log, WasError)
        /\ out.total_files = out.converted_files + out.skipped_files + out.error_files
        /\ \A i \in DOMAIN out.log :
              out.log[i].invoked <=> ~(out.log[i].existed /\ ~call.overwrite)

\* a run in which a file fails before a later one is converted, one file is
\* skipped for its existing output and one is converted
C23_Witness ==
    /\ call.op = "batch_convert_folder"
    /\ ~call.overwrite
    /\ \E i, j, k \in DOMAIN out.log :
          /\ i < j
          /\ WasError(out.log[i])
          /\ WasConverted(out.log[j])
          /\ WasSkipped(out.log[k])

\* the operation a callable stands for and the layer index it removes
SelectedOperation(convert_func) ==
    IF convert_func.tag = "method" THEN convert_func.name ELSE convert_func.flag

SelectedIndex(convert_func, layer_index) ==
    IF convert_func.tag = "method" THEN layer_index ELSE convert_func.layer_index

\* C26 as stated: every output of a batch run is named B_64x64.png for
\* expand, B_swap.png for swap, B_rm_layer{index}.png for remove-layer and
\* B_out.png for any other operation, for a method of the processor and for
\* the callable of the command line alike.
C26_Original ==
    call.op = "batch_convert_folder" =>
        \A i \in DOMAIN out.log :
           LET operation == SelectedOperation(call.convert_func)
               B == out.log[i].name.base
           IN  out.log[i].output =
                 FileName(B \o (IF operation \in {"convert_skin_64x32_to_64x64", "convert"}
                                THEN <<"_64x64">>
                                ELSE IF operation \in {"swap_skin_layer2_to_layer1",
                                                       "swap_layer2_to_layer1"}
                                THEN <<"_swap">>
                                ELSE IF operation = "remove_layer"
                                THEN <<"_rm_layer",
                                       SelectedIndex(call.convert_func, call.layer_index)>>
                                ELSE <<"_out">>),
                          ".png")

\* the pixel a crop reads at (x, y): the image's own inside it, transparent
\* padding outside
PixelOrPad(image, x, y) ==
    IF x < image.w /\ y < image.h THEN GetPixel(image, x, y) ELSE Transparent

ArmSides == {"right_arm", "left_arm"}

\* the columns 0 .. width - 1 without the deleted ones, in ascending order
RECURSIVE KeptColumns(_, _, _)
KeptColumns(width, deleted, c) ==
    IF c >= width THEN << >>
    ELSE (IF c \in deleted THEN << >> ELSE <<c>>) \o KeptColumns(width, deleted, c + 1)

\* the columns named for each arm part (part 1, part 2)
DeletedColumns(arm_side) ==
    IF arm_side = "right_arm" THEN << {2, 6}, {6, 13} >> ELSE << {1, 5}, {5, 14} >>

\* C24: when steve_to_alex converts an image classified wide, every arm part
\* of either layer appears in the result at the corner of its rectangle,
\* two columns narrower and of the same height, made of the columns of the
\* input's wide block in their order without columns {2,6} (right arm part 1),
\* {6,13} (right arm part 2), {1,5} (left arm part 1), {5,14} (left arm part
\* 2), each pixel with the value it had.
C24_ColumnDeletion ==
    (call.op = "steve_to_alex" /\ IsImage(img) /\ Detected(img) = "regular") =>
        /\ IsImage(out)
        /\ Is64x64(out)
        /\ \A layer \in {"layer1", "layer2"} : \A arm_side \in ArmSides : \A k \in 1 .. 2 :
              LET wide == DEFAULT_MC_SKIN_REGIONS[layer][arm_side][k].coords
                  kept == KeptColumns(wide[3] - wide[1], DeletedColumns(arm_side)[k], 0)
              IN  /\ Len(kept) = wide[3] - wide[1] - 2
                  /\ \A c \in 1 .. Len(kept) : \A dy \in 0 .. wide[4] - wide[2] - 1 :
                        GetPixel(out, wide[1] + c - 1, wide[2] + dy)
                          = PixelOrPad(img, wide[1] + kept[c], wide[2] + dy)

\* the gradient skin narrowed: in right arm part 1 of layer 1 (from x = 44)
\* the third column holds what was the fourth, the last what was the eighth
C24_Witness ==
    /\ call.op = "steve_to_alex"
    /\ img = Gradient(64)
    /\ IsImage(out)
    /\ GetPixel(out, 46, 16) = <<47, 16, 7, 255>>
    /\ GetPixel(out, 49, 19) = <<51, 19, 7, 255>>
    /\ GetPixel(out, 37, 52) = <<38, 52, 7, 255>>

\* the narrow column each wide column is a copy of (part 1, part 2)
SourceColumns ==
    << <<0, 1, 1, 2, 3, 4, 4, 5>>,
       <<0, 1, 2, 3, 4, 5, 5, 6, 7, 8, 9, 10, 11, 12, 12, 13>> >>

\* C25: when alex_to_steve converts an image classified narrow, every arm
\* part of either layer and either arm fills its wide rectangle in the
\* result with the columns of the input's narrow block in the order
\* 0,1,1,2,3,4,4,5 (part 1) and 0,1,2,3,4,5,5,6,7,8,9,10,11,12,12,13 (part 2).
C25_ColumnInsertion ==
    (call.op = "alex_to_steve" /\ IsImage(img) /\ Detected(img) = "slim") =>
        /\ IsImage(out)
        /\ Is64x64(out)
        /\ \A layer \in {"layer1", "layer2"} : \A arm_side \in ArmSides : \A k \in 1 .. 2 :
              LET wide == DEFAULT_MC_SKIN_REGIONS[layer][arm_side][k].coords
              IN  /\ Len(SourceColumns[k]) = wide[3] - wide[1]
                  /\ \A c \in 1 .. Len(SourceColumns[k]) :
                        \A dy \in 0 .. wide[4] - wide[2] - 1 :
                           GetPixel(out, wide[1] + c - 1, wide[2] + dy)
                             = PixelOrPad(img, wide[1] + SourceColumns[k][c], wide[2] + dy)

\* the narrow gradient skin widened: in right arm part 1 of layer 1 (from
\* x = 44) the third column repeats the second, the last holds the sixth
C25_Witness ==
    /\ call.op = "alex_to_steve"
    /\ img = SlimGradient
    /\ IsImage(out)
    /\ GetPixel(out, 45, 16) = <<45, 16, 7, 255>>
    /\ GetPixel(out, 46, 16) = <<45, 16, 7, 255>>
    /\ GetPixel(out, 51, 19) = <<49, 19, 7, 255>>

\* every pixel outside the arm rectangles of a table is transparent
EmptyOutsideArms(image, regions) ==
    \A x \in 0 .. image.w - 1 : \A y \in 0 .. image.h - 1 :
       InTable(x, y, regions, {"layer1", "layer2"}, ArmSides)
          \/ GetPixel(image, x, y) = Transparent

\* C27: steve_to_alex on an image classified wide and alex_to_steve on an
\* image classified narrow return a 64x64 canvas that is transparent at
\* every pixel outside the eight arm rectangles of the target table (narrow
\* for steve_to_alex, wide for alex_to_steve): nothing of the input's head,
\* body or legs is in the result.
C27_OnlyArms ==
    /\ (call.op = "steve_to_alex" /\ IsImage(img) /\ Detected(img) = "regular") =>
          /\ IsImage(out)
          /\ Is64x64(out)
          /\ EmptyOutsideArms(out, slim_regions(DEFAULT_MC_SKIN_REGIONS))
    /\ (call.op = "alex_to_steve" /\ IsImage(img) /\ Detected(img) = "slim") =>
          /\ IsImage(out)
          /\ Is64x64(out)
          /\ EmptyOutsideArms(out, DEFAULT_MC_SKIN_REGIONS)

\* the gradient skin, opaque everywhere, narrowed: the face and the two
\* freed columns of the right arm are empty, the arm is not
C27_Witness ==
    /\ call.op = "steve_to_alex"
    /\ img = Gradient(64)
    /\ GetPixel(img, 8, 8)[4] = 255
    /\ IsImage(out)
    /\ GetPixel(out, 8, 8) = Transparent
    /\ GetPixel(out, 51, 16) = Transparent
    /\ GetPixel(out, 44, 16)[4] = 255

\* the eight arm rectangles of the narrow table, with the part number of each
NarrowArmBoxes ==
    {[k |-> k, coords |-> slim_regions(DEFAULT_MC_SKIN_REGIONS)[layer][arm_side][k].coords] :
       layer \in {"layer1", "layer2"}, arm_side \in ArmSides, k \in 1 .. 2}

\* C28 as stated: for every 64x64 image classified narrow,
\* convert_skin_type(convert_skin_type(img, 'regular'), 'slim') has in each
\* of the eight narrow arm rectangles exactly the pixels of the original.
C28_Original ==
    (/\ IsConvertChain(RegularTokens, SlimTokens)
     /\ Is64x64(src)
     /\ Detected(src) = "slim")
    => /\ IsImage(out)
       /\ \A b \in NarrowArmBoxes : SameBlock(out, b.coords, src, b.coords)

\* a pixel with alpha > 0 in one of the last two columns of a narrow arm
\* rectangle
HasNarrowOuter(image) ==
    \E b \in NarrowArmBoxes :
       \E x \in b.coords[3] - 2 .. b.coords[3] - 1 : \E y \in b.coords[2] .. b.coords[4] - 1 :
          GetPixel(image, x, y)[4] > 0

\* C28 amended: for every 64x64 image classified narrow,
\* convert_skin_type(convert_skin_type(img, 'regular'), 'slim') has in each
\* of the eight narrow arm rectangles exactly the pixels of the original
\* when the original has a pixel with alpha > 0 in one of the last two
\* columns of a narrow arm rectangle; otherwise the widened image is
\* classified narrow, the second call returns it as it is, and each narrow
\* rectangle holds the original's columns 0,1,1,2,3,4 (part 1) and
\* 0,1,2,3,4,5,5,6,7,8,9,10,11,12 (part 2).
C28_RoundTrip ==
    (/\ IsConvertChain(RegularTokens, SlimTokens)
     /\ Is64x64(src)
     /\ Detected(src) = "slim")
    => /\ IsImage(out)
       /\ Is64x64(out)
       /\ IF HasNarrowOuter(src)
          THEN \A b \in NarrowArmBoxes : SameBlock(out, b.coords, src, b.coords)
          ELSE /\ out = img
               /\ \A b \in NarrowArmBoxes :
                     \A c \in 0 .. b.coords[3] - b.coords[1] - 1 :
                        \A y \in b.coords[2] .. b.coords[4] - 1 :
                           GetPixel(out, b.coords[1] + c, y)
                             = GetPixel(src, b.coords[1] + SourceColumns[b.k][c + 1], y)

\* a narrow skin with visible last columns has been widened, classified wide
\* and narrowed again to the arms it had
C28_Witness ==
    /\ IsConvertChain({"regular"}, {"slim"})
    /\ Is64x64(src)
    /\ Detected(src) = "slim"
    /\ HasNarrowOuter(src)
    /\ GetPixel(src, 45, 16)[4] > 0
    /\ Detected(img) = "regular"
    /\ IsImage(out)
    /\ out # img
    /\ \A b \in NarrowArmBoxes : SameBlock(out, b.coords, src, b.coords)

\* regions is the table a construction token selects
IsSelectedTable(regions, t) ==
    IF t \in {"slim", "alex"}
    THEN NarrowOf(regions, DEFAULT_MC_SKIN_REGIONS)
    ELSE regions = DEFAULT_MC_SKIN_REGIONS

\* C29: the table an MCSkinTools instance hands to expand, swap and
\* remove_layer is, after construction, the regular one for the tokens None,
\* regular, steve and any invalid token and the narrow one for slim and
\* alex, and no call of convert_skin_type, steve_to_alex, alex_to_steve or
\* auto-detection (nor of expand, swap and remove_layer) changes it, whatever
\* they do to the remembered skin_type.
C29_TableFixed ==
    /\ IsSelectedTable(skin_regions, skin_type)
    /\ [][skin_regions' = skin_regions]_vars

\* an instance built for slim skins has converted a wide skin, remembers
\* 'regular', and swaps with the narrow table all the same
C29_Witness ==
    /\ skin_type = "regular"
    /\ NarrowOf(skin_regions, DEFAULT_MC_SKIN_REGIONS)
    /\ call.op = "swap"
    /\ IsImage(out)
    /\ out = swap_skin_layer2_to_layer1(slim_regions(DEFAULT_MC_SKIN_REGIONS), img)
    /\ out # swap_skin_layer2_to_layer1(DEFAULT_MC_SKIN_REGIONS, img)

\* the (layer, body part, ordinal) positions of a table
PartKeys(regions) ==
    {<<l, b, k>> : l \in DOMAIN regions, b \in BodyParts, k \in 1 .. 2}

Overlap(a, b) == a[1] < b[3] /\ b[1] < a[3] /\ a[2] < b[4] /\ b[2] < a[4]

WellFormed(regions) ==
    /\ DOMAIN regions = {"layer1", "layer2"}
    /\ \A l \in DOMAIN regions :
          /\ DOMAIN regions[l] = BodyParts
          /\ \A b \in BodyParts : DOMAIN regions[l][b] = 1 .. 2
    /\ Cardinality(PartKeys(regions)) = 24
    /\ \A p \in PartKeys(regions) :
          LET c == regions[p[1]][p[2]][p[3]].coords
          IN  /\ 0 <= c[1] /\ c[1] < c[3] /\ c[3] <= 64
              /\ 0 <= c[2] /\ c[2] < c[4] /\ c[4] <= 64
    /\ \A p, q \in PartKeys(regions) :
          p # q => ~Overlap(regions[p[1]][p[2]][p[3]].coords,
                            regions[q[1]][q[2]][q[3]].coords)
    /\ \A b \in BodyParts : \A k \in 1 .. 2 :
          LET first == regions["layer1"][b][k]
              twins == {q \in PartKeys(regions) :
                          /\ q[1] = "layer2"
                          /\ regions[q[1]][q[2]][q[3]].name
                               = Replace(first.name, "layer1", "layer2")}
          IN  /\ twins = {<<"layer2", b, k>>}
              /\ LET second == regions["layer2"][b][k]
                 IN  /\ second.coords[3] - second.coords[1]
                          = first.coords[3] - first.coords[1]
                     /\ second.coords[4] - second.coords[2]
                          = first.coords[4] - first.coords[2]

\* C30: the wide table and the narrow table derived from it each hold 24
\* rectangles with 0 <= left < right <= 64 and 0 <= top < bottom <= 64, no
\* two of which overlap, within a layer or across layers; and every layer1
\* part has exactly one layer2 part with its name after replacing 'layer1'
\* by 'layer2', which is the part of the same body part and ordinal and has
\* the same width and height. This holds of every table a read answers.
C30_WellFormedTables ==
    /\ WellFormed(skin_regions)
    /\ WellFormed(slim_regions(skin_regions))
    /\ (call.op \in {"slim_regions", "skin_regions"} /\ out.tag = "table")
          => WellFormed(out.value)

\* a read of slim_regions has answered the narrow table, whose left arm of
\* layer 2 ends at x = 62 and lies beside the left arm of layer 1
C30_Witness ==
    /\ call.op = "slim_regions"
    /\ out.tag = "table"
    /\ out.value["layer2"]["left_arm"][2].coords = <<48, 52, 62, 64>>
    /\ out.value["layer1"]["left_arm"][2].coords = <<32, 52, 46, 64>>
    /\ WellFormed(out.value)

====
